---- MODULE Spec2Model ----
(***************************************************************************)
(* Model of the TrustTrade automation engine: the order manager            *)
(* (order-manager.mjs), the stop/target arithmetic (risk-advanced.mjs),    *)
(* the account risk controller (advanced-risk.mjs), the persistence layer  *)
(* (database.mjs) and the orchestrator (automation.mjs).                   *)
(*                                                                         *)
(* Numbers.  Prices are integers in units of 1/10000 dollar, percentages   *)
(* are in hundredths of a percent, so that price * (1 +/- pct / 100) is    *)
(* exact: price * (10000 +/- pct) \div 10000.  Quantities are in           *)
(* hundredths of a coin.  Time is counted in units of 30 minutes.          *)
(*                                                                         *)
(* Concurrency.  Every async handler is cut at its awaits on network       *)
(* calls: the code between two such awaits runs in one macrotask of the    *)
(* event loop and is one action.  An await on a synchronous database call  *)
(* only yields to the microtask queue and does not let another handler in. *)
(*                                                                         *)
(* Abstractions.  Arithmetic is exact where the code uses floats.  Fields  *)
(* that are written and never read (watermarks, percentages, times of      *)
(* entry and exit) are left out.  Rungs are numbered from 1 (the level of  *)
(* the returned event), the code stores index level - 1 in takeProfitsHit. *)
(* The signals table is kept as the rows with the greatest timestamp;      *)
(* getLatestSignal returns any of them.  A database call may throw.        *)
(* sizePct is the default 0.75, riskConfig the default.                    *)
(*                                                                         *)
(* In the decision loop the candles and the indicators are a free choice   *)
(* of the signal and of the risk/reward test.  For the analysis components *)
(* (strategy-manager.mjs, market-regime.mjs, the strategies, the composer) *)
(* a window of candles is its length and the readings the indicators give  *)
(* on it; the indicators sma, ema and atr are computed on short series of  *)
(* integers with integer division.  The strategy manager reads the wall    *)
(* clock in minutes (clockMin).                                            *)
(*                                                                         *)
(* Specifications.  Spec is the entry and exit path, SpecLoop adds the     *)
(* decision loop in a market that stands still, SpecOM drives the order    *)
(* manager through its exported functions, SpecRisk the risk controller.   *)
(* SpecIso runs the loops of two symbols side by side, SpecStale lets time *)
(* pass between price calls, SpecCtl is the automation controls, SpecBoot  *)
(* restarts the process, SpecEntry enters with small balances, SpecEval    *)
(* and SpecParts call the analysis components.  SpecBacktest is the        *)
(* backtesting engine behind its routes (backtesting.mjs), SpecRerun a     *)
(* backtest that is repeated, SpecCalc the Kelly sizing and the SMA        *)
(* crossover called on their own.  SpecSignals is the decision loop with   *)
(* strong signals only, SpecExit the decision and monitor loops with exits *)
(* that may fail, SpecShared the evaluations of two symbols, SpecLadder a  *)
(* position walked along its take-profit ladder.                           *)
(*                                                                         *)
(* exitCalls is a log: the closeTrade and updatePortfolio calls the        *)
(* monitor loop has carried out, in order, with the trade id of each.      *)
(***************************************************************************)
EXTENDS Integers, Sequences, FiniteSets, Bags, TLC

\* ------------------------------------------------------------------ bounds
MaxTrades == 2      \* trades (uuids) created in one run
MaxTasks == 2       \* async handler invocations in flight at once
MaxPositions == 1   \* positions created through the order manager alone
MaxTime == 3        \* the clock stops after this many 30-minute units
MaxLosses == 4      \* cap on the consecutive-loss counter
MaxTimers == 4      \* intervals that can be set at once
MaxClock == 6       \* minutes of wall time the strategy manager is followed for
MaxCandles == 3     \* candles a backtest replays after its warm-up
MaxLen == 3         \* length of the series handed to an indicator

\* ---------------------------------------------------------- input domains
Symbols == {"BTCUSDT", "ETHUSDT"}
\* the symbol that is traded where one symbol is enough
Traded == {"BTCUSDT"}
Sides == {"buy", "sell"}
SignalValues == {"buy", "sell", "hold"}
Scaled(p) == p * 10000
\* answers of the price call: three levels 3% apart, so that a stop, a ladder
\* rung and the take-profit can each be touched from some entry on each side
Prices == {Scaled(97), Scaled(100), Scaled(103)}
\* price updates fed to the order manager: with small moves in between
UpdatePrices == Prices \cup {Scaled(99), Scaled(101), Scaled(102)}
Balances == {10000}
Null == 0

\* price * factor / 10000, split so that no product leaves 32 bits
Pct(price, factor) ==
  (price \div 10000) * factor + ((price % 10000) * factor) \div 10000

\* ------------------------------------------------- risk-advanced.mjs (pure)
DEFAULT_RISK_CONFIG ==
  [stopLossPercent |-> 200, takeProfitPercent |-> 500,
   trailingStopPercent |-> 150, useTrailingStop |-> TRUE,
   useMultipleTakeProfits |-> TRUE]

calculateStopLoss(side, entryPrice, stopLossPercent) ==
  IF side = "buy"
  THEN Pct(entryPrice, 10000 - stopLossPercent)
  ELSE Pct(entryPrice, 10000 + stopLossPercent)

calculateTakeProfit(side, entryPrice, takeProfitPercent) ==
  IF side = "buy"
  THEN Pct(entryPrice, 10000 + takeProfitPercent)
  ELSE Pct(entryPrice, 10000 - takeProfitPercent)

\* a ladder whose four rungs all lie below the target: 40/60/80/90%
calculateMultipleTakeProfits_Inside(side, entryPrice, targetPercent) ==
  LET levels == << [percent |-> 25, target |-> (targetPercent * 40) \div 100],
                   [percent |-> 25, target |-> (targetPercent * 60) \div 100],
                   [percent |-> 25, target |-> (targetPercent * 80) \div 100],
                   [percent |-> 25, target |-> (targetPercent * 90) \div 100] >>
  IN [i \in 1..4 |->
        [positionPercent |-> levels[i].percent,
         profitTarget |-> levels[i].target,
         price |-> calculateTakeProfit(side, entryPrice, levels[i].target)]]

\* the four rungs: 25% of the position at 50/75/100/150% of the target
calculateMultipleTakeProfits(side, entryPrice, targetPercent) ==
  LET levels == << [percent |-> 25, target |-> (targetPercent * 50) \div 100],
                   [percent |-> 25, target |-> (targetPercent * 75) \div 100],
                   [percent |-> 25, target |-> targetPercent],
                   [percent |-> 25, target |-> (targetPercent * 150) \div 100] >>
  IN [i \in 1..4 |->
        [positionPercent |-> levels[i].percent,
         profitTarget |-> levels[i].target,
         price |-> calculateTakeProfit(side, entryPrice, levels[i].target)]]

\* updateTrailingStop without the comparison with the current stop
updateTrailingStop_NoRatchet(side, currentPrice, entryPrice, currentStopLoss, trailingPercent) ==
  LET trailLong == Pct(currentPrice, 10000 - trailingPercent)
      trailShort == Pct(currentPrice, 10000 + trailingPercent)
      none == [newStopLoss |-> currentStopLoss, trailingActivated |-> FALSE]
  IN IF side = "buy"
     THEN IF currentPrice > entryPrice
          THEN [newStopLoss |-> trailLong, trailingActivated |-> TRUE]
          ELSE none
     ELSE IF entryPrice > currentPrice
          THEN [newStopLoss |-> trailShort, trailingActivated |-> TRUE]
          ELSE none

updateTrailingStop(side, currentPrice, entryPrice, currentStopLoss, trailingPercent) ==
  LET trailLong == Pct(currentPrice, 10000 - trailingPercent)
      trailShort == Pct(currentPrice, 10000 + trailingPercent)
      none == [newStopLoss |-> currentStopLoss, trailingActivated |-> FALSE]
  IN IF side = "buy"
     THEN IF currentPrice > entryPrice /\ trailLong > currentStopLoss
          THEN [newStopLoss |-> trailLong, trailingActivated |-> TRUE]
          ELSE none
     ELSE IF entryPrice > currentPrice /\ trailShort < currentStopLoss
          THEN [newStopLoss |-> trailShort, trailingActivated |-> TRUE]
          ELSE none

isStopLossHit(side, currentPrice, stopLossPrice) ==
  IF side = "buy" THEN currentPrice <= stopLossPrice
                  ELSE currentPrice >= stopLossPrice

isTakeProfitHit(side, currentPrice, takeProfitPrice) ==
  IF side = "buy" THEN currentPrice >= takeProfitPrice
                  ELSE currentPrice <= takeProfitPrice

\* ------------------------------------------------------ risk.mjs (pure)
preTradeChecks(balanceUSD, price, minNotional) ==
  IF price <= 0 THEN [ok |-> FALSE, reason |-> "invalid_price"]
  ELSE IF balanceUSD <= 0 THEN [ok |-> FALSE, reason |-> "no_balance"]
  ELSE IF balanceUSD < minNotional THEN [ok |-> FALSE, reason |-> "below_min_notional"]
  ELSE [ok |-> TRUE, reason |-> "ok"]

\* ------------------------------------------------------------- helpers

RECURSIVE SortedIds(_)
SortedIds(S) ==
  IF S = {} THEN << >>
  ELSE LET m == CHOOSE x \in S : \A y \in S : x <= y
       IN << m >> \o SortedIds(S \ {m})

Contains(seq, x) == \E i \in 1..Len(seq) : seq[i] = x

\* quantity = notional / price, in hundredths of a coin
Quantity(notional, price) == (notional * 100) \div (price \div 10000)

\* (b - a) * quantity with the sign kept: \div is only applied to naturals
PnlOf(a, b, quantity) ==
  IF b >= a THEN ((b - a) * quantity) \div 10000
            ELSE 0 - (((a - b) * quantity) \div 10000)

\* --------------------------------------------------- order-manager.mjs
newPosition(trade, riskConfig) ==
  [id |-> trade.id, symbol |-> trade.symbol, side |-> trade.side,
   entryPrice |-> trade.price, quantity |-> trade.quantity,
   notional |-> trade.notional,
   stopLossPrice |-> calculateStopLoss(trade.side, trade.price, riskConfig.stopLossPercent),
   takeProfitPrice |-> calculateTakeProfit(trade.side, trade.price, riskConfig.takeProfitPercent),
   trailingStopEnabled |-> riskConfig.useTrailingStop,
   trailingStopPercent |-> riskConfig.trailingStopPercent,
   trailingActivated |-> FALSE,
   multipleTakeProfits |->
     IF riskConfig.useMultipleTakeProfits
     THEN calculateMultipleTakeProfits(trade.side, trade.price, riskConfig.takeProfitPercent)
     ELSE << >>,
   takeProfitsHit |-> << >>,
   currentPrice |-> trade.price, unrealizedPnl |-> 0,
   status |-> "open"]

\* activePositions.set(trade.id, position)
createPosition(ap, trade, riskConfig) ==
  [id \in DOMAIN ap \cup {trade.id} |->
     IF id = trade.id THEN newPosition(trade, riskConfig) ELSE ap[id]]

\* first un-hit rung that the price touches, 0 if none
FirstRungHit(p, currentPrice) ==
  LET hit == {i \in 1..Len(p.multipleTakeProfits) :
                /\ ~Contains(p.takeProfitsHit, i)
                /\ isTakeProfitHit(p.side, currentPrice, p.multipleTakeProfits[i].price)}
  IN IF hit = {} THEN 0 ELSE CHOOSE i \in hit : \A j \in hit : i <= j

\* updatePosition with the ladder rungs checked before the take-profit price
updatePosition_LadderFirst(pos, currentPrice) ==
  LET pnl == IF pos.side = "buy"
             THEN PnlOf(pos.entryPrice, currentPrice, pos.quantity)
             ELSE PnlOf(currentPrice, pos.entryPrice, pos.quantity)
      pnlPositive == IF pos.side = "buy" THEN currentPrice > pos.entryPrice
                                         ELSE pos.entryPrice > currentPrice
      p1 == [pos EXCEPT !.currentPrice = currentPrice,
                        !.unrealizedPnl = pnl]
      tu == updateTrailingStop(p1.side, currentPrice, p1.entryPrice,
                               p1.stopLossPrice, p1.trailingStopPercent)
      p2 == IF p1.trailingStopEnabled /\ pnlPositive /\ tu.trailingActivated
            THEN [p1 EXCEPT !.stopLossPrice = tu.newStopLoss,
                            !.trailingActivated = TRUE]
            ELSE p1
      rung == FirstRungHit(p2, currentPrice)
      base == [id |-> pos.id, position |-> p2, triggered |-> FALSE,
               action |-> "none", level |-> 0, percentToClose |-> 0,
               exitPrice |-> currentPrice, pnl |-> pnl]
  IN IF isStopLossHit(p2.side, currentPrice, p2.stopLossPrice)
     THEN [base EXCEPT !.triggered = TRUE, !.action = "stop-loss",
                       !.percentToClose = 100]
     ELSE IF rung # 0
     THEN [base EXCEPT !.triggered = TRUE, !.action = "partial-take-profit",
             !.level = rung,
             !.percentToClose = p2.multipleTakeProfits[rung].positionPercent,
             !.position = [p2 EXCEPT !.takeProfitsHit = Append(@, rung)],
             !.pnl = (pnl * p2.multipleTakeProfits[rung].positionPercent) \div 100]
     ELSE IF isTakeProfitHit(p2.side, currentPrice, p2.takeProfitPrice)
     THEN [base EXCEPT !.triggered = TRUE, !.action = "take-profit",
                       !.percentToClose = 100]
     ELSE base

\* updatePosition on a position that is in the table: the mutated position
\* and the returned { triggered, action, ... }
updatePosition(pos, currentPrice) ==
  LET pnl == IF pos.side = "buy"
             THEN PnlOf(pos.entryPrice, currentPrice, pos.quantity)
             ELSE PnlOf(currentPrice, pos.entryPrice, pos.quantity)
      pnlPositive == IF pos.side = "buy" THEN currentPrice > pos.entryPrice
                                         ELSE pos.entryPrice > currentPrice
      p1 == [pos EXCEPT !.currentPrice = currentPrice,
                        !.unrealizedPnl = pnl]
      tu == updateTrailingStop(p1.side, currentPrice, p1.entryPrice,
                               p1.stopLossPrice, p1.trailingStopPercent)
      p2 == IF p1.trailingStopEnabled /\ pnlPositive /\ tu.trailingActivated
            THEN [p1 EXCEPT !.stopLossPrice = tu.newStopLoss,
                            !.trailingActivated = TRUE]
            ELSE p1
      rung == FirstRungHit(p2, currentPrice)
      base == [id |-> pos.id, position |-> p2, triggered |-> FALSE,
               action |-> "none", level |-> 0, percentToClose |-> 0,
               exitPrice |-> currentPrice, pnl |-> pnl]
  IN IF isStopLossHit(p2.side, currentPrice, p2.stopLossPrice)
     THEN [base EXCEPT !.triggered = TRUE, !.action = "stop-loss",
                       !.percentToClose = 100]
     ELSE IF isTakeProfitHit(p2.side, currentPrice, p2.takeProfitPrice)
     THEN [base EXCEPT !.triggered = TRUE, !.action = "take-profit",
                       !.percentToClose = 100]
     ELSE IF rung # 0
     THEN [base EXCEPT !.triggered = TRUE, !.action = "partial-take-profit",
             !.level = rung,
             !.percentToClose = p2.multipleTakeProfits[rung].positionPercent,
             !.position = [p2 EXCEPT !.takeProfitsHit = Append(@, rung)],
             !.pnl = (pnl * p2.multipleTakeProfits[rung].positionPercent) \div 100]
     ELSE base

\* closePosition: the closed position object that is returned
closePosition(pos, exitPrice, reason) ==
  [id |-> pos.id, symbol |-> pos.symbol, side |-> pos.side,
   entryPrice |-> pos.entryPrice, quantity |-> pos.quantity,
   stopLossPrice |-> pos.stopLossPrice, takeProfitPrice |-> pos.takeProfitPrice,
   takeProfitsHit |-> pos.takeProfitsHit,
   status |-> "closed", exitPrice |-> exitPrice, exitReason |-> reason,
   realizedPnl |-> IF pos.side = "buy"
                   THEN PnlOf(pos.entryPrice, exitPrice, pos.quantity)
                   ELSE PnlOf(exitPrice, pos.entryPrice, pos.quantity)]

\* a close that leaves the position in the table
removePosition_Keeps(ap, id) == ap

\* activePositions.delete(positionId)
removePosition(ap, id) == [i \in DOMAIN ap \ {id} |-> ap[i]]

\* checkAllPositions: every open position of the symbol is updated, in the
\* insertion order of the table; the results that triggered are returned
checkAllPositions(ap, symbol, currentPrice) ==
  LET ids == {i \in DOMAIN ap : ap[i].symbol = symbol /\ ap[i].status = "open"}
      res == [i \in ids |-> updatePosition(ap[i], currentPrice)]
      trig == SortedIds({i \in ids : res[i].triggered})
  IN [positions |-> [i \in DOMAIN ap |-> IF i \in ids THEN res[i].position ELSE ap[i]],
      triggers |-> [k \in 1..Len(trig) |-> res[trig[k]]]]

getActivePositions(ap) ==
  LET ids == SortedIds(DOMAIN ap)
  IN [k \in 1..Len(ids) |-> ap[ids[k]]]

\* ------------------------------------------------------- database.mjs
\* INSERT INTO trades
saveTrade(tr, trade) ==
  [id \in DOMAIN tr \cup {trade.id} |->
     IF id = trade.id
     THEN [symbol |-> trade.symbol, side |-> trade.side, price |-> trade.price,
           quantity |-> trade.quantity, notional |-> trade.notional,
           status |-> trade.status, closed_price |-> Null, pnl |-> 0]
     ELSE tr[id]]

\* UPDATE trades SET status = 'closed', ... WHERE id = ?
closeTrade(tr, tradeId, closePrice, pnl) ==
  [id \in DOMAIN tr |->
     IF id = tradeId
     THEN [tr[id] EXCEPT !.status = "closed", !.closed_price = closePrice, !.pnl = pnl]
     ELSE tr[id]]

\* INSERT INTO portfolio ... ON CONFLICT(symbol) DO UPDATE SET quantity = ?, ...
updatePortfolio(pf, symbol, quantity, avgPrice, currentPrice) ==
  [pf EXCEPT ![symbol] = [present |-> TRUE, quantity |-> quantity,
                          avg_price |-> avgPrice, current_price |-> currentPrice]]

\* INSERT INTO signals with timestamp Date.now(): the rows of the symbol
\* that carry its greatest timestamp, and whether that timestamp is the
\* current millisecond
saveSignal(latest, fresh, symbol, signal) ==
  [latest EXCEPT ![symbol] = IF fresh[symbol] THEN @ \cup {signal} ELSE {signal}]

\* SELECT ... ORDER BY timestamp DESC LIMIT 1: any row with the greatest
\* timestamp (SQL leaves the order of ties open)
getLatestSignal(latest, symbol) == latest[symbol]

\* ---------------------------------------------------------------- state
VARIABLES
  activePositions,        \* order-manager.mjs: Map id -> position
  closedPositions,        \* the objects returned by closePosition, in order
  lastUpdate,             \* what updatePosition returned to its last direct caller
  trades,                 \* database.mjs: table trades, id -> row
  portfolio,              \* database.mjs: table portfolio, symbol -> row
  exitCalls,              \* database.mjs: the calls the monitor loop has made, in order
  sigLatest,              \* database.mjs: table signals (see saveSignal)
  sigFresh,
  automationStateDb,      \* database.mjs: table automation_state
  automationActive,       \* automation.mjs: module state
  automationIntervals,    \*   Map symbol -> interval handle (Null: no entry)
  positionMonitorInterval,\*   interval handle or Null
  priceCache,             \*   Map symbol -> { price, timestamp } (NoPrice: no entry)
  timers,                 \* event loop: the intervals that are set
  tasks,                  \* event loop: bag of handler invocations at an await
  circuitBreakerState,    \* advanced-risk.mjs: module state
  portfolioLimits,
  now,                    \* Date.now(), in 30-minute units
  currentRegime,          \* strategy-manager.mjs: module state (NoRegime: null)
  lastRegimeCheck,        \*   Date.now() of the last regime detection, in minutes
  clockMin,               \* Date.now() as the strategy manager reads it, in minutes
  evaluation,             \* the result of the last call of an analysis component
  backtest,               \* backtesting.mjs: the run a backtest route is serving
  lastCall                \* the last call of a pure function: arguments and result

omVars == << activePositions, closedPositions, lastUpdate >>
dbVars == << trades, portfolio, exitCalls >>
sigVars == << sigLatest, sigFresh >>
autoVars == << automationStateDb, automationActive, automationIntervals,
               positionMonitorInterval, timers >>
riskVars == << circuitBreakerState, portfolioLimits >>
stratVars == << currentRegime, lastRegimeCheck, clockMin, evaluation >>
reqVars == << backtest, lastCall >>
vars == << omVars, dbVars, sigVars, autoVars, priceCache, tasks, riskVars, now,
          stratVars, reqVars >>

TimerIds == 1..MaxTimers

NoTask == [kind |-> "none", pc |-> "none", symbol |-> "none", side |-> "none",
           balance |-> 0, autoTrade |-> FALSE, rrOk |-> FALSE, snapshot |-> << >>]
FreeTimer == [kind |-> "free", symbol |-> "none", autoTrade |-> FALSE, balance |-> 0]

NoUpdate == [id |-> 0, position |-> Null, triggered |-> FALSE, action |-> "none",
             level |-> 0, percentToClose |-> 0, exitPrice |-> 0, pnl |-> 0]

NoPrice == [price |-> Null, timestamp |-> 0]

\* no regime detected yet (currentRegime = null)
NoRegime == [regime |-> "none", confidence |-> 0, recommendedStrategy |-> "none"]

\* no readings: the call was not one of the regime classifier
NoReading ==
  [trend |-> [trending |-> FALSE, direction |-> "none", strength |-> 0],
   volLevel |-> "none", rangeScore |-> 0, buyScore |-> 0, sellScore |-> 0]

\* no configuration: the call was not one of the strategy manager
NoRequest == [autoSwitch |-> FALSE, forceStrategy |-> "none"]

\* no evaluation yet; an evaluation records the call (component, window,
\* config) and what it returned
NoEvaluation ==
  [component |-> "none", short |-> FALSE, threw |-> FALSE, signal |-> "none",
   confidence |-> 0, series |-> << >>, window |-> 0, regime |-> NoRegime,
   detected |-> FALSE, at |-> 0, strategyUsed |-> "none", config |-> NoRequest,
   reading |-> NoReading, symbol |-> "none"]

\* position = null in runBacktest
NoSimPosition ==
  [open |-> FALSE, side |-> "none", entry_price |-> 0, amount |-> 0,
   entry_time |-> 0, entry_index |-> 0, fee |-> 0]

\* no earlier response is kept
NoRun ==
  [ran |-> FALSE, config |-> << >>, candles |-> << >>, trades |-> << >>,
   equityCurve |-> << >>]

\* no backtest has been asked for; a run records its route, its config, the
\* tail of its candles, the index of the loop, the locals of runBacktest, the
\* signal of the last iteration, and for a comparison the index of the
\* strategy and the outcomes so far
NoBacktest ==
  [phase |-> "idle", route |-> "none", config |-> << >>, candles |-> << >>,
   i |-> 0, capital |-> 0, position |-> NoSimPosition, trades |-> << >>,
   equityCurve |-> << >>, signal |-> "none", at |-> 0, results |-> << >>,
   status |-> 0, previous |-> NoRun]

\* no pure function has been called
NoCall == [fn |-> "none", args |-> << >>, result |-> << >>]

\* no automation_config row yet
NoConfig == [symbols |-> << >>, autoTrade |-> FALSE, balancePerSymbol |-> 0]

NoRow == [present |-> FALSE, quantity |-> 0, avg_price |-> 0, current_price |-> 0]

Init ==
  /\ activePositions = << >>
  /\ closedPositions = << >>
  /\ lastUpdate = NoUpdate
  /\ trades = << >>
  /\ portfolio = [s \in Symbols |-> NoRow]
  /\ exitCalls = << >>
  /\ sigLatest = [s \in Symbols |-> {}]
  /\ sigFresh = [s \in Symbols |-> FALSE]
  /\ automationStateDb = [automation_active |-> FALSE, automation_config |-> NoConfig]
  /\ automationActive = FALSE
  /\ automationIntervals = [s \in Symbols |-> Null]
  /\ positionMonitorInterval = Null
  /\ priceCache = [s \in Symbols |-> NoPrice]
  /\ timers = [i \in TimerIds |-> FreeTimer]
  /\ tasks = EmptyBag
  /\ circuitBreakerState =
       [isTripped |-> FALSE, tripTime |-> Null, consecutiveLosses |-> 0,
        cooldownPeriod |-> 2, maxConsecutiveLosses |-> 3]
  /\ portfolioLimits = [maxExposurePerSymbol |-> 25, maxTotalExposure |-> 75]
  /\ now = 0
  /\ currentRegime = NoRegime
  /\ lastRegimeCheck = 0
  /\ clockMin = 0
  /\ evaluation = NoEvaluation
  /\ backtest = NoBacktest
  /\ lastCall = NoCall

Running == BagToSet(tasks)
Spawn(task) == tasks (+) SetToBag({task})
Finish(task) == tasks (-) SetToBag({task})
Continue(task, next) == (tasks (-) SetToBag({task})) (+) SetToBag({next})
CanSpawn == BagCardinality(tasks) < MaxTasks
FreeTimers == {i \in TimerIds : timers[i].kind = "free"}

NewId == Cardinality(DOMAIN trades) + 1

\* ------------------------------------------------------ automation.mjs
\* getCurrentPrice(symbol) once the Kraken call has returned r (Null: the
\* call failed): the price handed to the caller and the new cache entry
getCurrentPrice(symbol, r) ==
  IF r # Null
  THEN [price |-> r, cache |-> [price |-> r, timestamp |-> now]]
  ELSE [price |-> priceCache[symbol].price, cache |-> priceCache[symbol]]

DbFailures == {"none", "saveTrade", "updatePortfolio"}

\* executeTrade from the return of getCurrentPrice to its own return;
\* fail names the database call that throws, if any
executeTradeBody(symbol, side, balanceUsd, price, fail) ==
  LET same == [ap |-> activePositions, tr |-> trades, pf |-> portfolio]
      check == preTradeChecks(balanceUsd, price, 10)
      notional == (balanceUsd * 75) \div 100
      quantity == Quantity(notional, price)
      trade == [id |-> NewId, symbol |-> symbol, side |-> side, price |-> price,
                quantity |-> quantity, notional |-> notional, status |-> "open"]
      tr1 == saveTrade(trades, trade)
      ap1 == createPosition(activePositions, trade, DEFAULT_RISK_CONFIG)
      pf1 == updatePortfolio(portfolio, symbol,
                             IF side = "buy" THEN quantity ELSE 0 - quantity,
                             price, price)
  IN IF price = Null THEN same
     ELSE IF ~check.ok THEN same
     ELSE IF fail = "saveTrade" THEN same
     ELSE IF fail = "updatePortfolio" THEN [same EXCEPT !.tr = tr1, !.ap = ap1]
     ELSE [ap |-> ap1, tr |-> tr1, pf |-> pf1]

\* trades that exist plus executeTrade calls that may still come
TradesStarted ==
  Cardinality(DOMAIN trades)
    + BagCardinality([task \in {x \in Running : x.kind \in {"manual", "decision"}}
                        |-> tasks[task]])

\* a caller invokes executeTrade(symbol, side, balanceUsd): it runs up to
\* its await on getCurrentPrice
ManualExecuteTrade(symbol, side, balanceUsd) ==
  /\ CanSpawn
  /\ TradesStarted < MaxTrades
  /\ tasks' = Spawn([NoTask EXCEPT !.kind = "manual", !.pc = "price",
                                   !.symbol = symbol, !.side = side,
                                   !.balance = balanceUsd])
  /\ UNCHANGED << omVars, dbVars, sigVars, autoVars, priceCache, riskVars, now, stratVars, reqVars >>

\* the price call of an executeTrade returns: the rest of executeTrade;
\* answers and failures are what the price call and the database may do
ExecPriceIn(task, answers, failures) ==
  /\ task.kind \in {"manual", "decision"}
  /\ task.pc = "price"
  /\ \E r \in answers, fail \in failures :
       LET got == getCurrentPrice(task.symbol, r)
           res == executeTradeBody(task.symbol, task.side, task.balance,
                                   got.price, fail)
       IN /\ priceCache' = [priceCache EXCEPT ![task.symbol] = got.cache]
          /\ activePositions' = res.ap
          /\ trades' = res.tr
          /\ portfolio' = res.pf
  /\ tasks' = Finish(task)
  /\ UNCHANGED << closedPositions, lastUpdate, exitCalls, sigVars, autoVars, riskVars, now, stratVars, reqVars >>

ExecPrice(task) == ExecPriceIn(task, Prices \cup {Null}, DbFailures)

\* a caller (the /signal route) invokes analyzeAndSignal(symbol): it runs
\* up to its await on the candle call
ManualAnalyze(symbol) ==
  /\ CanSpawn
  /\ tasks' = Spawn([NoTask EXCEPT !.kind = "analyze", !.pc = "analyze",
                                   !.symbol = symbol])
  /\ UNCHANGED << omVars, dbVars, sigVars, autoVars, priceCache, riskVars, now, stratVars, reqVars >>

\* the candle call of a caller's analyzeAndSignal returns (sig = "error":
\* it failed, returned nothing, or saveSignal threw)
AnalyzeDone(task) ==
  /\ task.kind = "analyze"
  /\ \E sig \in SignalValues \cup {"error"} :
       IF sig = "error"
       THEN UNCHANGED sigVars
       ELSE /\ sigLatest' = saveSignal(sigLatest, sigFresh, task.symbol, sig)
            /\ sigFresh' = [sigFresh EXCEPT ![task.symbol] = TRUE]
  /\ tasks' = Finish(task)
  /\ UNCHANGED << omVars, dbVars, autoVars, priceCache, riskVars, now, stratVars, reqVars >>

\* a millisecond passes: a later saveSignal gets a greater timestamp
MsElapse ==
  /\ \E s \in Symbols : sigFresh[s]
  /\ sigFresh' = [s \in Symbols |-> FALSE]
  /\ UNCHANGED << omVars, dbVars, sigLatest, autoVars, priceCache, tasks,
                  riskVars, now, stratVars, reqVars >>

\* ----- startAutomation / stopAutomation
RECURSIVE SymbolSeq(_)
SymbolSeq(S) ==
  IF S = {} THEN << >>
  ELSE LET m == CHOOSE x \in S : TRUE IN << m >> \o SymbolSeq(S \ {m})

IndexOf(seq, x) == CHOOSE i \in 1..Len(seq) : seq[i] = x

\* the module-level automation state as one value, so that a handler made
\* of two calls (restartAutomation) can be composed
AutoNow ==
  [active |-> automationActive, db |-> automationStateDb,
   intervals |-> automationIntervals, monitor |-> positionMonitorInterval,
   timers |-> timers]

SetAuto(a) ==
  /\ automationActive' = a.active
  /\ automationStateDb' = a.db
  /\ automationIntervals' = a.intervals
  /\ positionMonitorInterval' = a.monitor
  /\ timers' = a.timers

FreeIn(a) == SortedIds({i \in TimerIds : a.timers[i].kind = "free"})

\* the body of startAutomation once the "already running" guard has passed:
\* one setInterval per symbol, stored under the symbol, and one for the
\* monitor, stored in positionMonitorInterval
afterStart(a, syms, autoTrade, balancePerSymbol) ==
  LET free == FreeIn(a)
      monitorId == free[Len(syms) + 1]
      symbols == {syms[k] : k \in 1..Len(syms)}
      \* automationIntervals.set(symbol, h): a later entry of the list
      \* replaces the handle stored for the same symbol
      handle(sym) == free[CHOOSE k \in 1..Len(syms) :
                            /\ syms[k] = sym
                            /\ \A j \in 1..Len(syms) : syms[j] = sym => j <= k]
  IN [active |-> TRUE,
      db |-> [automation_active |-> TRUE,
              automation_config |-> [symbols |-> syms, autoTrade |-> autoTrade,
                                     balancePerSymbol |-> balancePerSymbol]],
      timers |-> [i \in TimerIds |->
              IF i = monitorId
              THEN [FreeTimer EXCEPT !.kind = "monitor"]
              ELSE IF \E k \in 1..Len(syms) : free[k] = i
              THEN [kind |-> "decision",
                    symbol |-> syms[CHOOSE k \in 1..Len(syms) : free[k] = i],
                    autoTrade |-> autoTrade, balance |-> balancePerSymbol]
              ELSE a.timers[i]],
      intervals |-> [sym \in Symbols |->
              IF sym \in symbols THEN handle(sym) ELSE a.intervals[sym]],
      monitor |-> monitorId]

\* the body of stopAutomation once the "not running" guard has passed:
\* clearInterval on every stored handle, and only on those
afterStop(a) ==
  LET cleared == {a.intervals[sym] : sym \in Symbols} \cup {a.monitor}
  IN [active |-> FALSE,
      db |-> [a.db EXCEPT !.automation_active = FALSE],
      timers |-> [i \in TimerIds |-> IF i \in cleared THEN FreeTimer ELSE a.timers[i]],
      intervals |-> [sym \in Symbols |-> Null],
      monitor |-> Null]

\* startAutomation(config) with config.symbols = syms, a list
startAutomationList(syms, autoTrade, balancePerSymbol) ==
  /\ ~automationActive
  /\ Len(FreeIn(AutoNow)) > Len(syms)
  /\ SetAuto(afterStart(AutoNow, syms, autoTrade, balancePerSymbol))
  /\ UNCHANGED << omVars, dbVars, sigVars, priceCache, tasks, riskVars, now, stratVars, reqVars >>

startAutomation(symbols, autoTrade, balancePerSymbol) ==
  startAutomationList(SymbolSeq(symbols), autoTrade, balancePerSymbol)

\* a caller (the /automation/start route) invokes startAutomation with one
\* of the given lists of symbols
StartAutomationOf(lists) ==
  \E symbols \in lists, autoTrade \in {TRUE}, balancePerSymbol \in Balances :
    startAutomation(symbols, autoTrade, balancePerSymbol)

StartAutomation == StartAutomationOf({Traded})

\* the lists the /automation/start and /automation/restart routes accept:
\* z.array(z.string()), so a symbol may be named twice
SymbolLists ==
  {<< "BTCUSDT" >>, << "BTCUSDT", "ETHUSDT" >>, << "BTCUSDT", "BTCUSDT" >>}

StartAutomationList ==
  \E syms \in SymbolLists, balancePerSymbol \in Balances :
    startAutomationList(syms, TRUE, balancePerSymbol)

StopAutomation ==
  /\ automationActive
  /\ SetAuto(afterStop(AutoNow))
  /\ UNCHANGED << omVars, dbVars, sigVars, priceCache, tasks, riskVars, now, stratVars, reqVars >>

\* restartAutomation(newConfig): stopAutomation if running, then
\* startAutomation, in one synchronous call
restartAutomation(syms, autoTrade, balancePerSymbol) ==
  LET a == IF automationActive THEN afterStop(AutoNow) ELSE AutoNow
  IN /\ Len(FreeIn(a)) > Len(syms)
     /\ SetAuto(afterStart(a, syms, autoTrade, balancePerSymbol))
     /\ UNCHANGED << omVars, dbVars, sigVars, priceCache, tasks, riskVars, now, stratVars, reqVars >>

RestartAutomation ==
  \E syms \in SymbolLists, balancePerSymbol \in Balances :
    restartAutomation(syms, TRUE, balancePerSymbol)

\* setAutomationActive(active): the exported setter writes the flag and the
\* database row and touches no interval
setAutomationActive(active) ==
  /\ automationActive' = active
  /\ automationStateDb' = [automationStateDb EXCEPT !.automation_active = active]
  /\ UNCHANGED << automationIntervals, positionMonitorInterval, timers >>
  /\ UNCHANGED << omVars, dbVars, sigVars, priceCache, tasks, riskVars, now, stratVars, reqVars >>

SetAutomationActive == \E active \in BOOLEAN : setAutomationActive(active)

\* ----- server.mjs: the process ends and is started again
\* every module-level value is back to its initial value and the database
\* keeps its rows; autoRestartAutomation reads automation_active and
\* automation_config and, if both are set, arms a 5-second timeout
ProcessRestart ==
  /\ activePositions' = << >>
  /\ lastUpdate' = NoUpdate
  /\ automationActive' = FALSE
  /\ automationIntervals' = [s \in Symbols |-> Null]
  /\ positionMonitorInterval' = Null
  /\ priceCache' = [s \in Symbols |-> NoPrice]
  /\ tasks' = EmptyBag
  /\ circuitBreakerState' =
       [isTripped |-> FALSE, tripTime |-> Null, consecutiveLosses |-> 0,
        cooldownPeriod |-> 2, maxConsecutiveLosses |-> 3]
  /\ portfolioLimits' = [maxExposurePerSymbol |-> 25, maxTotalExposure |-> 75]
  /\ timers' = [i \in TimerIds |->
        IF /\ i = 1
           /\ automationStateDb.automation_active
           /\ automationStateDb.automation_config # NoConfig
        THEN [FreeTimer EXCEPT !.kind = "restart"]
        ELSE FreeTimer]
  /\ currentRegime' = NoRegime
  /\ lastRegimeCheck' = 0
  /\ UNCHANGED << closedPositions, dbVars, sigVars, automationStateDb, now,
                  clockMin, evaluation, reqVars >>

\* the timeout of autoRestartAutomation fires: startAutomation(config),
\* which refuses if automation has been started in the meantime
AutoRestartFire(i) ==
  /\ timers[i].kind = "restart"
  /\ LET config == automationStateDb.automation_config
         a == [AutoNow EXCEPT !.timers[i] = FreeTimer]
     IN IF automationActive
        THEN SetAuto(a)
        ELSE /\ Len(FreeIn(a)) > Len(config.symbols)
             /\ SetAuto(afterStart(a, config.symbols, config.autoTrade,
                                   config.balancePerSymbol))
  /\ UNCHANGED << omVars, dbVars, sigVars, priceCache, tasks, riskVars, now, stratVars, reqVars >>

\* ----- the per-symbol decision loop (the setInterval callback)
\* the interval fires: the callback runs up to its await on the candle call
DecisionTick(i) ==
  /\ timers[i].kind = "decision"
  /\ CanSpawn
  /\ TradesStarted < MaxTrades
  /\ tasks' = Spawn([NoTask EXCEPT !.kind = "decision", !.pc = "candles",
                                   !.symbol = timers[i].symbol,
                                   !.autoTrade = timers[i].autoTrade,
                                   !.balance = timers[i].balance])
  /\ UNCHANGED << omVars, dbVars, sigVars, autoVars, priceCache, riskVars, now, stratVars, reqVars >>

\* DecisionCandles where a failed candle call also clears every interval
DecisionCandles_ClearsIntervals(task) ==
  /\ task.kind = "decision"
  /\ task.pc = "candles"
  /\ \E ok \in BOOLEAN, rr \in BOOLEAN :
       /\ tasks' = IF ok THEN Continue(task, [task EXCEPT !.pc = "analyze", !.rrOk = rr])
                         ELSE Finish(task)
       /\ timers' = IF ok THEN timers ELSE [i \in TimerIds |-> FreeTimer]
  /\ UNCHANGED << omVars, dbVars, sigVars, automationStateDb, automationActive,
                  automationIntervals, positionMonitorInterval, priceCache,
                  riskVars, now, stratVars, reqVars >>

\* the candle call returns: a failure or an empty answer ends the tick;
\* otherwise the closes fix the risk/reward of assessProfitOpportunity and
\* analyzeAndSignal runs up to its own await on the candle call
DecisionCandles(task) ==
  /\ task.kind = "decision"
  /\ task.pc = "candles"
  /\ \E ok \in BOOLEAN, rr \in BOOLEAN :
       tasks' = IF ok THEN Continue(task, [task EXCEPT !.pc = "analyze", !.rrOk = rr])
                      ELSE Finish(task)
  /\ UNCHANGED << omVars, dbVars, sigVars, autoVars, priceCache, riskVars, now, stratVars, reqVars >>

\* analyzeAndSignal returns (sig = "error": with an error) and the callback
\* runs on to its end or to the await on getCurrentPrice in executeTrade;
\* results are what the analysis may return, strengths whether its confidence
\* reaches minConfidence (signalStrong)
DecisionAnalyzeOf(task, results, strengths) ==
  /\ task.kind = "decision"
  /\ task.pc = "analyze"
  /\ \E sig \in results, signalStrong \in strengths :
       LET latest == saveSignal(sigLatest, sigFresh, task.symbol, sig)
       IN IF sig = "error"
          THEN /\ tasks' = Finish(task)
               /\ UNCHANGED sigVars
          ELSE /\ sigLatest' = latest
               /\ sigFresh' = [sigFresh EXCEPT ![task.symbol] = TRUE]
               /\ IF task.autoTrade /\ signalStrong /\ sig # "hold" /\ task.rrOk
                  THEN \E lastSignal \in getLatestSignal(latest, task.symbol) :
                         tasks' = IF lastSignal # sig
                                  THEN Continue(task, [task EXCEPT !.pc = "price",
                                                                   !.side = sig])
                                  ELSE Finish(task)
                  ELSE tasks' = Finish(task)
  /\ UNCHANGED << omVars, dbVars, autoVars, priceCache, riskVars, now, stratVars, reqVars >>

DecisionAnalyzeIn(task, results) == DecisionAnalyzeOf(task, results, BOOLEAN)

DecisionAnalyze(task) == DecisionAnalyzeIn(task, SignalValues \cup {"error"})

\* ----- the position-monitor loop (the setInterval callback)
\* the interval fires: the callback reads the active positions and, if there
\* are any, runs up to its await on getCurrentPrice for the first of them
MonitorTick(i) ==
  /\ timers[i].kind = "monitor"
  /\ activePositions # << >>
  /\ CanSpawn
  /\ LET aps == getActivePositions(activePositions)
     IN tasks' = Spawn([NoTask EXCEPT !.kind = "monitor", !.pc = "price",
                   !.snapshot = [k \in 1..Len(aps) |->
                      [id |-> aps[k].id, symbol |-> aps[k].symbol,
                       quantity |-> aps[k].quantity,
                       entryPrice |-> aps[k].entryPrice]]])
  /\ UNCHANGED << omVars, dbVars, sigVars, autoVars, priceCache, riskVars, now, stratVars, reqVars >>

\* the exits of one checkAllPositions, in order: closePosition, closeTrade,
\* updatePortfolio for each trigger; fail = << k, call >> makes that database
\* call of the k-th trigger throw, which ends the loop (catch posError)
RECURSIVE executeExits(_, _, _, _, _)
executeExits(triggers, k, st, position, fail) ==
  IF k > Len(triggers) THEN st
  ELSE LET trg == triggers[k]
           closed == closePosition(st.ap[trg.id], trg.exitPrice, trg.action)
           st1 == [st EXCEPT !.ap = removePosition(st.ap, trg.id),
                             !.closed = Append(st.closed, closed)]
           st2 == [st1 EXCEPT !.tr = closeTrade(st.tr, trg.id, trg.exitPrice,
                                                closed.realizedPnl),
                              !.calls = Append(@, << "closeTrade", trg.id >>)]
           st3 == [st2 EXCEPT !.pf = updatePortfolio(st.pf, position.symbol,
                                       0 - position.quantity,
                                       position.entryPrice, trg.exitPrice),
                              !.calls = Append(@, << "updatePortfolio", trg.id >>)]
       IN IF fail = << k, "closeTrade" >> THEN st1
          ELSE IF fail = << k, "updatePortfolio" >> THEN st2
          ELSE executeExits(triggers, k + 1, st3, position, fail)

ExitFailures(n) ==
  {<< 0, "none" >>} \cup ((1..n) \X {"closeTrade", "updatePortfolio"})

\* the price call for the next position of the snapshot returns: the body of
\* the for loop for that position, up to the await for the one after it
MonitorPriceIn(task, answers, canFail) ==
  /\ task.kind = "monitor"
  /\ LET position == Head(task.snapshot)
         rest == Tail(task.snapshot)
     IN /\ \E r \in answers :
             LET got == getCurrentPrice(position.symbol, r)
                 chk == checkAllPositions(activePositions, position.symbol, got.price)
             IN /\ priceCache' = [priceCache EXCEPT ![position.symbol] = got.cache]
                /\ IF got.price = Null
                   THEN UNCHANGED << omVars, dbVars >>
                   ELSE \E fail \in ExitFailures(IF canFail THEN Len(chk.triggers) ELSE 0) :
                          LET st == executeExits(chk.triggers, 1,
                                      [ap |-> chk.positions, closed |-> closedPositions,
                                       tr |-> trades, pf |-> portfolio,
                                       calls |-> exitCalls],
                                      position, fail)
                          IN /\ activePositions' = st.ap
                             /\ closedPositions' = st.closed
                             /\ trades' = st.tr
                             /\ portfolio' = st.pf
                             /\ exitCalls' = st.calls
        /\ tasks' = IF rest = << >> THEN Finish(task)
                    ELSE Continue(task, [task EXCEPT !.snapshot = rest])
  /\ UNCHANGED << lastUpdate, sigVars, autoVars, riskVars, now, stratVars, reqVars >>

MonitorPrice(task) == MonitorPriceIn(task, Prices \cup {Null}, TRUE)

\* ------------------------------------- order-manager.mjs, called directly
RiskConfigs ==
  {DEFAULT_RISK_CONFIG,
   [DEFAULT_RISK_CONFIG EXCEPT !.useTrailingStop = FALSE],
   [DEFAULT_RISK_CONFIG EXCEPT !.useMultipleTakeProfits = FALSE]}

PositionsCreated == Cardinality(DOMAIN activePositions) + Len(closedPositions)

\* createPosition(trade, riskConfig) with a trade of 7500 dollars
OmCreatePosition(symbol, side, price, riskConfig) ==
  /\ PositionsCreated < MaxPositions
  /\ LET trade == [id |-> PositionsCreated + 1, symbol |-> symbol, side |-> side,
                   price |-> price, quantity |-> Quantity(7500, price),
                   notional |-> 7500, status |-> "open"]
     IN activePositions' = createPosition(activePositions, trade, riskConfig)
  /\ UNCHANGED << closedPositions, lastUpdate, dbVars, sigVars, autoVars,
                  priceCache, tasks, riskVars, now, stratVars, reqVars >>

\* updatePosition(positionId, currentPrice)
OmUpdatePosition(positionId, currentPrice) ==
  /\ IF positionId \in DOMAIN activePositions
     THEN LET res == updatePosition(activePositions[positionId], currentPrice)
          IN /\ activePositions' = [activePositions EXCEPT ![positionId] = res.position]
             /\ lastUpdate' = res
     ELSE /\ lastUpdate' = NoUpdate
          /\ UNCHANGED activePositions
  /\ UNCHANGED << closedPositions, dbVars, sigVars, autoVars, priceCache, tasks,
                  riskVars, now, stratVars, reqVars >>

\* closePosition(positionId, exitPrice, reason)
OmClosePosition(positionId, exitPrice, reason) ==
  /\ IF positionId \in DOMAIN activePositions
     THEN /\ closedPositions' =
               Append(closedPositions,
                      closePosition(activePositions[positionId], exitPrice, reason))
          /\ activePositions' = removePosition(activePositions, positionId)
     ELSE UNCHANGED << activePositions, closedPositions >>
  /\ UNCHANGED << lastUpdate, dbVars, sigVars, autoVars, priceCache, tasks,
                  riskVars, now, stratVars, reqVars >>

\* ------------------------------------------------------ advanced-risk.mjs
\* checkCircuitBreaker that never ends the cooldown
checkCircuitBreaker_NoCooldownEnd(cb, t) ==
  IF cb.isTripped
  THEN [state |-> cb, halted |-> TRUE]
  ELSE [state |-> cb, halted |-> FALSE]

\* checkCircuitBreaker(): the state it leaves and the halted flag it returns
checkCircuitBreaker(cb, t) ==
  IF cb.isTripped
  THEN IF t - cb.tripTime >= cb.cooldownPeriod
       THEN [state |-> [cb EXCEPT !.isTripped = FALSE, !.tripTime = Null,
                                  !.consecutiveLosses = 0],
             halted |-> FALSE]
       ELSE [state |-> cb, halted |-> TRUE]
  ELSE [state |-> cb, halted |-> FALSE]

\* updateCircuitBreaker where a win leaves the counter as it is
updateCircuitBreaker_WinKeepsCount(cb, tradePnL, t) ==
  IF tradePnL < 0
  THEN LET cb1 == [cb EXCEPT !.consecutiveLosses = @ + 1]
       IN IF cb1.consecutiveLosses >= cb1.maxConsecutiveLosses
          THEN [cb1 EXCEPT !.isTripped = TRUE, !.tripTime = t]
          ELSE cb1
  ELSE cb

\* updateCircuitBreaker(tradePnL)
updateCircuitBreaker(cb, tradePnL, t) ==
  IF tradePnL < 0
  THEN LET cb1 == [cb EXCEPT !.consecutiveLosses = @ + 1]
       IN IF cb1.consecutiveLosses >= cb1.maxConsecutiveLosses
          THEN [cb1 EXCEPT !.isTripped = TRUE, !.tripTime = t]
          ELSE cb1
  ELSE IF tradePnL > 0 THEN [cb EXCEPT !.consecutiveLosses = 0]
  ELSE cb

CheckCircuitBreaker ==
  /\ circuitBreakerState' = checkCircuitBreaker(circuitBreakerState, now).state
  /\ UNCHANGED << omVars, dbVars, sigVars, autoVars, priceCache, tasks,
                  portfolioLimits, now, stratVars, reqVars >>

UpdateCircuitBreaker(tradePnL) ==
  /\ circuitBreakerState.consecutiveLosses < MaxLosses
  /\ circuitBreakerState' = updateCircuitBreaker(circuitBreakerState, tradePnL, now)
  /\ UNCHANGED << omVars, dbVars, sigVars, autoVars, priceCache, tasks,
                  portfolioLimits, now, stratVars, reqVars >>

\* updateCircuitBreakerConfig({ maxConsecutiveLosses, cooldownMinutes }),
\* Null for a field that is left out
UpdateCircuitBreakerConfig(maxConsecutiveLosses, cooldown) ==
  /\ circuitBreakerState' =
       [circuitBreakerState EXCEPT
          !.maxConsecutiveLosses = IF maxConsecutiveLosses # Null
                                   THEN maxConsecutiveLosses ELSE @,
          !.cooldownPeriod = IF cooldown # Null THEN cooldown ELSE @]
  /\ UNCHANGED << omVars, dbVars, sigVars, autoVars, priceCache, tasks,
                  portfolioLimits, now, stratVars, reqVars >>

\* resetCircuitBreaker()
resetCircuitBreaker(cb) ==
  [cb EXCEPT !.isTripped = FALSE, !.tripTime = Null, !.consecutiveLosses = 0]

ResetCircuitBreaker ==
  /\ circuitBreakerState' = resetCircuitBreaker(circuitBreakerState)
  /\ UNCHANGED << omVars, dbVars, sigVars, autoVars, priceCache, tasks,
                  portfolioLimits, now, stratVars, reqVars >>

\* thirty minutes pass
Tick ==
  /\ now < MaxTime
  /\ now' = now + 1
  /\ UNCHANGED << omVars, dbVars, sigVars, autoVars, priceCache, tasks, riskVars,
                  stratVars, reqVars >>

\* ------------------------------------------- indicators-advanced.mjs
\* An entry of an indicator series: null (no reading yet), a hole left by a
\* write past the end of the array, NaN, or a number
Nul == [kind |-> "null", v |-> 0]
Hole == [kind |-> "undefined", v |-> 0]
NaN == [kind |-> "nan", v |-> 0]
Num(x) == [kind |-> "num", v |-> x]

Max(a, b) == IF a >= b THEN a ELSE b
Min(a, b) == IF a <= b THEN a ELSE b
AbsVal(x) == IF x < 0 THEN 0 - x ELSE x

RECURSIVE SumOf(_, _, _)
SumOf(values, from, to) ==
  IF from > to THEN 0 ELSE values[from] + SumOf(values, from + 1, to)

\* sma(values, n): a reading from the n-th entry on, null before; the
\* series is as long as the input
sma(values, n) ==
  [k \in 1..Len(values) |->
     IF k >= n THEN Num(SumOf(values, k - n + 1, k) \div n) ELSE Nul]

\* ema(values, period).  The array starts as values.length nulls; the seed
\* is written at index period - 1 whatever the length, so a shorter input
\* yields a longer array, and the sum over entries that do not exist is NaN
RECURSIVE emaAt(_, _, _)
emaAt(values, period, k) ==
  IF k < period THEN (IF k <= Len(values) THEN Nul ELSE Hole)
  ELSE IF k = period
  THEN IF Len(values) < period THEN NaN
       ELSE Num(SumOf(values, 1, period) \div period)
  ELSE LET prev == emaAt(values, period, k - 1).v
       IN Num(((values[k] - prev) * 2) \div (period + 1) + prev)

ema(values, period) ==
  [k \in 1..Max(Len(values), period) |-> emaAt(values, period, k)]

\* atr(candles, period).  True ranges exist from the second candle on; the
\* seed, the sum of the first (at most period) true ranges over period, is
\* written at index period whatever the length
trueRange(candles, i) ==
  Max(candles[i].h - candles[i].l,
      Max(AbsVal(candles[i].h - candles[i - 1].c),
          AbsVal(candles[i].l - candles[i - 1].c)))

RECURSIVE SumRanges(_, _, _)
SumRanges(candles, from, to) ==
  IF from > to THEN 0
  ELSE trueRange(candles, from) + SumRanges(candles, from + 1, to)

RECURSIVE atrAt(_, _, _)
atrAt(candles, period, k) ==
  IF k < period + 1 THEN (IF k <= Len(candles) THEN Nul ELSE Hole)
  ELSE IF k = period + 1
  THEN Num(SumRanges(candles, 2, Min(period + 1, Len(candles))) \div period)
  ELSE Num((atrAt(candles, period, k - 1).v * (period - 1)
            + trueRange(candles, k)) \div period)

atr(candles, period) ==
  [k \in 1..Max(Len(candles), period + 1) |-> atrAt(candles, period, k)]

\* the series an indicator is handed: closes of 100 or 200, candles around them
Closes == {100, 200}
Candle(c) == [h |-> c + 10, l |-> c - 10, c |-> c]
SeriesOf(S) == UNION {[1..n -> S] : n \in 0..MaxLen}
Periods == {2, 3}

\* ------------------------------------------------ the analysis components
\* What the components read off a window of candles: its length, the three
\* sub-analyses of the regime classifier, and the indicator votes a strategy
\* sees (lean: the side its entry conditions point to; power: its weighted
\* strength sum in percent, before any clipping; buyScore and sellScore: the
\* weighted votes of the composer, in hundredths)
Lengths == {30, 60, 120}
Trends ==
  {[trending |-> FALSE, direction |-> "sideways", strength |-> 20],
   [trending |-> TRUE, direction |-> "up", strength |-> 60],
   [trending |-> TRUE, direction |-> "down", strength |-> 80]}
\* what analyzeTrend can return: besides the above, averages that are not
\* aligned although the move is strong (a sharp reversal), and aligned
\* averages with a weak move
TrendReadings ==
  Trends \cup {[trending |-> FALSE, direction |-> "sideways", strength |-> 80],
               [trending |-> TRUE, direction |-> "up", strength |-> 40]}
Ranges ==
  {[volLevel |-> "high", rangeScore |-> 80], [volLevel |-> "low", rangeScore |-> 80],
   [volLevel |-> "low", rangeScore |-> 50]}
Votes ==
  {[lean |-> "neutral", power |-> 30], [lean |-> "buy", power |-> 130],
   [lean |-> "sell", power |-> 30]}
Scores ==
  {[buyScore |-> 0, sellScore |-> 0], [buyScore |-> 100, sellScore |-> 0],
   [buyScore |-> 0, sellScore |-> 100]}
\* the votes the composer can accumulate: besides the above, a tie (SMA
\* against MACD, 1.0 each) and two mixed votes
ScoreReadings ==
  Scores \cup {[buyScore |-> 100, sellScore |-> 100],
               [buyScore |-> 150, sellScore |-> 100],
               [buyScore |-> 80, sellScore |-> 190]}
Windows ==
  {[length |-> n, trend |-> t, volLevel |-> r.volLevel, rangeScore |-> r.rangeScore,
    lean |-> v.lean, power |-> v.power, buyScore |-> sc.buyScore,
    sellScore |-> sc.sellScore] :
     n \in Lengths, t \in Trends, r \in Ranges, v \in Votes, sc \in Scores}

Result(signal, confidence) ==
  [signal |-> signal, confidence |-> confidence, threw |-> FALSE]
Throws == [signal |-> "none", confidence |-> 0, threw |-> TRUE]

REGIME_STRATEGIES(regime) ==
  CASE regime = "trending-up" -> "momentum"
    [] regime = "trending-down" -> "momentum"
    [] regime = "ranging" -> "mean-reversion"
    [] regime = "volatile" -> "grid-trading"
    [] regime = "choppy" -> "hold"

Regime(regime, confidence) ==
  [regime |-> regime, confidence |-> confidence,
   recommendedStrategy |-> REGIME_STRATEGIES(regime)]

\* the classifier when a moderate trend is tested before volatility and range
detectMarketRegime_WeakTrendFirst(w) ==
  LET trend == w.trend
      volHigh == w.volLevel = "high"
      volScore == IF volHigh THEN 90 ELSE 30
      ranging == w.rangeScore >= 60
      trendRegime == IF trend.direction = "up" THEN "trending-up" ELSE "trending-down"
  IN IF w.length < 100 THEN Regime("choppy", 0)
     ELSE IF trend.trending /\ trend.strength > 50
     THEN Regime(trendRegime, trend.strength)
     ELSE IF volHigh /\ ranging
     THEN Regime("volatile", (volScore * 60 + w.rangeScore * 40 + 50) \div 100)
     ELSE IF ranging /\ ~volHigh
     THEN Regime("ranging", w.rangeScore)
     ELSE Regime("choppy", 30)

\* detectMarketRegime(candles); scores are in percent
detectMarketRegime(w) ==
  LET trend == w.trend
      volHigh == w.volLevel = "high"
      volScore == IF volHigh THEN 90 ELSE 30
      ranging == w.rangeScore >= 60
      trendRegime == IF trend.direction = "up" THEN "trending-up" ELSE "trending-down"
  IN IF w.length < 100 THEN Regime("choppy", 0)
     ELSE IF trend.trending /\ trend.strength > 70
     THEN Regime(trendRegime, trend.strength)
     ELSE IF volHigh /\ ranging
     THEN Regime("volatile", (volScore * 60 + w.rangeScore * 40 + 50) \div 100)
     ELSE IF ranging /\ ~volHigh
     THEN Regime("ranging", w.rangeScore)
     ELSE IF trend.trending /\ trend.strength > 50
     THEN Regime(trendRegime, trend.strength)
     ELSE Regime("choppy", 30)

\* analyzeMeanReversion: the confidence is clipped at 100
analyzeMeanReversion(w) ==
  IF w.length < 100 THEN Result("hold", 0)
  ELSE IF w.lean = "neutral" THEN Result("hold", 0)
  ELSE Result(w.lean, Min(w.power, 100))

\* analyzeMomentum: both entry branches declare a block-scoped trendStrength
\* whose initializer reads itself, so they end in a ReferenceError
analyzeMomentum(w) ==
  IF w.length < 100 THEN Result("hold", 0)
  ELSE IF w.lean = "neutral" THEN Result("hold", 0)
  ELSE Throws

\* analyzeGridTrading(candles, config, activeGrid); NoGrid: no active grid
NoGrid == [active |-> FALSE, hit |-> "none", breakout |-> FALSE]
Grids == {NoGrid} \cup
  [active : {TRUE}, hit : {"buy", "sell", "none"}, breakout : BOOLEAN]

analyzeGridTrading(w, activeGrid) ==
  IF w.length < 50 THEN Result("hold", 0)
  ELSE IF ~activeGrid.active THEN Result("setup", 70)
  ELSE IF activeGrid.breakout THEN Result("exit-all", 90)
  ELSE IF activeGrid.hit = "none" THEN Result("hold", 0)
  ELSE Result(activeGrid.hit, 70)

\* analyzeDayTrading: the sell branches sum bounded terms; the RSI-bounce
\* buy branch adds |histogram| / 50 unclipped
analyzeDayTrading(w) ==
  IF w.length < 50 THEN Result("hold", 0)
  ELSE IF w.lean = "buy" THEN Result("buy", w.power)
  ELSE IF w.lean = "sell" THEN Result("sell", Min(w.power, 100))
  ELSE Result("hold", 0)

\* the composer when a tie goes to the buy side
composeSignal_TieBuys(w) ==
  LET totalWeight == w.buyScore + w.sellScore
  IN IF w.length < 100 THEN Result("hold", 0)
     ELSE IF totalWeight = 0 THEN Result("hold", 0)
     ELSE IF w.buyScore >= w.sellScore
     THEN Result("buy", (w.buyScore * 100 + totalWeight \div 2) \div totalWeight)
     ELSE Result("sell", (w.sellScore * 100 + totalWeight \div 2) \div totalWeight)

\* composeSignal: the weighted vote
composeSignal(w) ==
  LET totalWeight == w.buyScore + w.sellScore
  IN IF w.length < 100 THEN Result("hold", 0)
     ELSE IF totalWeight = 0 THEN Result("hold", 0)
     ELSE IF w.buyScore > w.sellScore
     THEN Result("buy", (w.buyScore * 100 + totalWeight \div 2) \div totalWeight)
     ELSE IF w.sellScore > w.buyScore
     THEN Result("sell", (w.sellScore * 100 + totalWeight \div 2) \div totalWeight)
     ELSE Result("hold", 0)

\* ------------------------------------------------- strategy-manager.mjs
REGIME_CHECK_INTERVAL == 5
minRegimeConfidence == 60

runStrategy(selectedStrategy, w) ==
  CASE selectedStrategy = "mean-reversion" -> analyzeMeanReversion(w)
    [] selectedStrategy = "momentum" -> analyzeMomentum(w)
    [] selectedStrategy = "grid-trading" -> analyzeGridTrading(w, NoGrid)
    [] selectedStrategy = "day-trading" -> analyzeDayTrading(w)
    [] OTHER -> composeSignal(w)

\* the regime state after the cadence check of analyzeWithOptimalStrategy
\* where the regime detection always runs
regimeAfterCheck_AlwaysDetects(w, regime, checked, t) ==
  [regime |-> detectMarketRegime(w), checked |-> t, detected |-> TRUE]

\* the regime state after the cadence check of analyzeWithOptimalStrategy
regimeAfterCheck(w, regime, checked, t) ==
  IF regime = NoRegime \/ t - checked > REGIME_CHECK_INTERVAL
  THEN [regime |-> detectMarketRegime(w), checked |-> t, detected |-> TRUE]
  ELSE [regime |-> regime, checked |-> checked, detected |-> FALSE]

\* the selected strategy when the regime's recommendation is consulted before
\* the fixed default
selectStrategy_RegimeFirst(autoSwitch, forceStrategy, regime) ==
  IF forceStrategy # "none" THEN forceStrategy
  ELSE IF regime.confidence >= minRegimeConfidence THEN regime.recommendedStrategy
  ELSE "multi-indicator"

\* the selection chain of analyzeWithOptimalStrategy; forceStrategy "none" is
\* null, the default strategy of STRATEGY_MANAGER_CONFIG is 'multi-indicator'
selectStrategy(autoSwitch, forceStrategy, regime) ==
  IF forceStrategy # "none" THEN forceStrategy
  ELSE IF ~autoSwitch THEN "multi-indicator"
  ELSE IF regime.confidence < minRegimeConfidence THEN "multi-indicator"
  ELSE regime.recommendedStrategy

\* analyzeWithOptimalStrategy(candles, config) at time t: the Signal it
\* returns and the regime state it leaves; forceStrategy "none" is null
analyzeWithOptimalStrategy(w, autoSwitch, forceStrategy, regime, checked, t) ==
  IF w.length < 100
  THEN [out |-> Result("hold", 0), returned |-> NoRegime, strategyUsed |-> "none",
        regime |-> regime, checked |-> checked, detected |-> FALSE]
  ELSE LET st == regimeAfterCheck(w, regime, checked, t)
           selectedStrategy == selectStrategy(autoSwitch, forceStrategy, st.regime)
       IN [out |-> runStrategy(selectedStrategy, w), returned |-> st.regime,
           strategyUsed |-> selectedStrategy,
           regime |-> st.regime, checked |-> st.checked, detected |-> st.detected]

Evaluated(component, short, res, series, window, regime) ==
  [component |-> component, short |-> short, threw |-> res.threw,
   signal |-> res.signal, confidence |-> res.confidence, series |-> series,
   window |-> window, regime |-> regime, detected |-> FALSE, at |-> clockMin,
   strategyUsed |-> "none", config |-> NoRequest, reading |-> NoReading,
   symbol |-> "none"]

\* the configurations of an evaluation request: automatic switching, the
\* fixed default, and a strategy forced with setStrategy
Configs ==
  {[autoSwitch |-> TRUE, forceStrategy |-> "none"],
   [autoSwitch |-> FALSE, forceStrategy |-> "none"],
   [autoSwitch |-> TRUE, forceStrategy |-> "day-trading"]}

\* an evaluation request: analyzeWithOptimalStrategy on a window
Evaluate ==
  \E w \in Windows, config \in Configs :
    LET autoSwitch == config.autoSwitch
        forceStrategy == config.forceStrategy
        r == analyzeWithOptimalStrategy(w, autoSwitch, forceStrategy,
                                        currentRegime, lastRegimeCheck, clockMin)
    IN /\ currentRegime' = r.regime
       /\ lastRegimeCheck' = r.checked
       /\ evaluation' = [Evaluated("analyzeWithOptimalStrategy", w.length < 100,
                                   r.out, << >>, w.length, r.returned)
                            EXCEPT !.detected = r.detected,
                                   !.strategyUsed = r.strategyUsed,
                                   !.config = config]
       /\ UNCHANGED << omVars, dbVars, sigVars, autoVars, priceCache, tasks,
                       riskVars, now, clockMin, reqVars >>

\* the candle window of each symbol while the market keeps its character:
\* BTCUSDT falls in a strong aligned trend, ETHUSDT oscillates quietly
SymbolWindow(symbol) ==
  IF symbol = "BTCUSDT"
  THEN [length |-> 120,
        trend |-> [trending |-> TRUE, direction |-> "down", strength |-> 80],
        volLevel |-> "low", rangeScore |-> 50, lean |-> "sell", power |-> 30,
        buyScore |-> 0, sellScore |-> 100]
  ELSE [length |-> 120,
        trend |-> [trending |-> FALSE, direction |-> "sideways", strength |-> 20],
        volLevel |-> "low", rangeScore |-> 80, lean |-> "buy", power |-> 130,
        buyScore |-> 100, sellScore |-> 0]

\* analyzeAndSignal(symbol) from the return of its candle call to the return
\* of analyzeWithOptimalStrategy(candles, config), candles being the window
\* of the symbol
EvaluateSymbol(symbol) ==
  \E config \in Configs :
    LET w == SymbolWindow(symbol)
        r == analyzeWithOptimalStrategy(w, config.autoSwitch, config.forceStrategy,
                                        currentRegime, lastRegimeCheck, clockMin)
    IN /\ currentRegime' = r.regime
       /\ lastRegimeCheck' = r.checked
       /\ evaluation' = [Evaluated("analyzeWithOptimalStrategy", w.length < 100,
                                   r.out, << >>, w.length, r.returned)
                            EXCEPT !.detected = r.detected,
                                   !.strategyUsed = r.strategyUsed,
                                   !.config = config,
                                   !.symbol = symbol]
       /\ UNCHANGED << omVars, dbVars, sigVars, autoVars, priceCache, tasks,
                       riskVars, now, clockMin, reqVars >>

\* a component called on its own with a window
CallComponent ==
  /\ \/ \E w \in Windows :
          evaluation' \in
            {Evaluated("analyzeMeanReversion", w.length < 100,
                       analyzeMeanReversion(w), << >>, w.length, NoRegime),
             Evaluated("analyzeMomentum", w.length < 100, analyzeMomentum(w),
                       << >>, w.length, NoRegime),
             Evaluated("analyzeDayTrading", w.length < 50, analyzeDayTrading(w),
                       << >>, w.length, NoRegime)}
     \/ \E n \in Lengths, t \in TrendReadings, r \in Ranges :
          LET w == [(CHOOSE x \in Windows : x.length = n)
                      EXCEPT !.trend = t, !.volLevel = r.volLevel,
                             !.rangeScore = r.rangeScore]
              found == detectMarketRegime(w)
          IN evaluation' =
               [Evaluated("detectMarketRegime", w.length < 100,
                          Result(found.recommendedStrategy, found.confidence),
                          << >>, w.length, found)
                  EXCEPT !.reading = [NoReading EXCEPT !.trend = t,
                                                       !.volLevel = r.volLevel,
                                                       !.rangeScore = r.rangeScore]]
     \/ \E n \in Lengths, sc \in ScoreReadings :
          LET w == [(CHOOSE x \in Windows : x.length = n)
                      EXCEPT !.buyScore = sc.buyScore, !.sellScore = sc.sellScore]
          IN evaluation' =
               [Evaluated("composeSignal", w.length < 100, composeSignal(w),
                          << >>, w.length, NoRegime)
                  EXCEPT !.reading = [NoReading EXCEPT !.buyScore = sc.buyScore,
                                                       !.sellScore = sc.sellScore]]
     \/ \E n \in Lengths, activeGrid \in Grids :
          LET w == CHOOSE x \in Windows : x.length = n
          IN evaluation' = Evaluated("analyzeGridTrading", w.length < 50,
                                     analyzeGridTrading(w, activeGrid),
                                     << >>, w.length, NoRegime)
  /\ UNCHANGED << omVars, dbVars, sigVars, autoVars, priceCache, tasks,
                  riskVars, now, currentRegime, lastRegimeCheck, clockMin, reqVars >>

\* an indicator called on its own with a series
CallIndicator ==
  \E closes \in SeriesOf(Closes), period \in Periods :
    LET candles == [k \in 1..Len(closes) |-> Candle(closes[k])]
    IN /\ evaluation' \in
            {Evaluated("sma", Len(closes) < period, Result("series", 0),
                       sma(closes, period), Len(closes), NoRegime),
             Evaluated("ema", Len(closes) < period, Result("series", 0),
                       ema(closes, period), Len(closes), NoRegime),
             Evaluated("atr", Len(candles) < period + 1, Result("series", 0),
                       atr(candles, period), Len(candles), NoRegime)}
       /\ UNCHANGED << omVars, dbVars, sigVars, autoVars, priceCache, tasks,
                       riskVars, now, currentRegime, lastRegimeCheck, clockMin, reqVars >>

\* a minute of wall time passes
ClockTick ==
  /\ clockMin < MaxClock
  /\ clockMin' = clockMin + 1
  /\ UNCHANGED << omVars, dbVars, sigVars, autoVars, priceCache, tasks, riskVars,
                  now, currentRegime, lastRegimeCheck, evaluation, reqVars >>

\* ------------------------------------------------------ backtesting.mjs
\* Money is in tenths of a dollar, feeRate in 1/10000, slippage in 1/1000, prices with
\* slippage in thousandths of a dollar, dates in days, candle times in hours.
\* The candles before index 50 are only read through the indicators, so a
\* fetched series is its tail from index 50 on; each candle of the tail
\* carries what the indicators of the backtest read off the window that ends
\* at it: the 14-candle momentum and the SMA(12)-SMA(26) difference in
\* hundredths of a percent, the side of the last SMA crossover, the z-score
\* of the close in hundredths, and the distance of the close above the
\* 20-candle average in hundredths of a percent.
\* After getCandles has answered, the replay runs without any await: the
\* iterations of its loop are steps of the model so that each can be looked
\* at, and nothing runs between them.
WarmUp == 50
ForceClosed == "Force closed at end of backtest"

Rally == [close |-> 105, mom |-> 100, smaDiff |-> 30, cross |-> "buy",
          z |-> 150, above |-> 100]
Drop == [close |-> 95, mom |-> -100, smaDiff |-> -30, cross |-> "sell",
         z |-> -250, above |-> -300]
Flat == [close |-> 100, mom |-> 0, smaDiff |-> 0, cross |-> "hold",
         z |-> 0, above |-> 0]
BacktestCandles == {Rally, Drop, Flat}

TailsOf(S) == UNION {[1..n -> S] : n \in 0..MaxCandles}

\* what getCandles answers: it throws, it returns fewer than 50 candles, or
\* it returns 50 candles and a tail
CandleAnswers(S) ==
  {[ok |-> FALSE, short |-> FALSE, tail |-> << >>],
   [ok |-> TRUE, short |-> TRUE, tail |-> << >>]}
    \cup {[ok |-> TRUE, short |-> FALSE, tail |-> t] : t \in TailsOf(S)}

BaseConfig ==
  [strategy |-> "momentum", initialCapital |-> 100000, positionSize |-> 10000,
   startDate |-> 0, endDate |-> 30, feeRate |-> 26, slippage |-> 1]

\* the request bodies after the route has filled in its defaults
BacktestConfigs ==
  {BaseConfig,
   [BaseConfig EXCEPT !.strategy = "mean-reversion"],
   [BaseConfig EXCEPT !.strategy = "multi-indicator"],
   [BaseConfig EXCEPT !.strategy = "grid-trading"],
   [BaseConfig EXCEPT !.initialCapital = 10000],
   [BaseConfig EXCEPT !.positionSize = 200000],
   [BaseConfig EXCEPT !.startDate = 30],
   [BaseConfig EXCEPT !.feeRate = 200]}

\* validateBacktestConfig(config).valid; symbol and strategy are always set
\* by the routes
validateBacktestConfig(config) ==
  /\ ~(config.positionSize > config.initialCapital)
  /\ ~(config.startDate >= config.endDate)
  /\ ~(config.endDate - config.startDate > 365)
  /\ ~(config.feeRate < 0 \/ config.feeRate > 100)
  /\ ~(config.slippage < 0 \/ config.slippage > 50)

getMomentumSignal(c) ==
  IF c.mom > 50 THEN "buy" ELSE IF c.mom < -50 THEN "sell" ELSE "hold"

getSmaCrossoverSignal(c) == c.cross

getMeanReversionSignal(c) ==
  IF c.z < -200 THEN "buy" ELSE IF c.z > 0 THEN "sell" ELSE "hold"

DefaultThresholds ==
  [momentumThreshold |-> 80, smaDiffThreshold |-> 25, pricePositionPercent |-> 500]
ConservativeThresholds ==
  [momentumThreshold |-> 150, smaDiffThreshold |-> 50, pricePositionPercent |-> 200]

\* assessProfitOpportunity(closes, 12, 26, thresholds).profitOpportunity
assessProfitOpportunity(c, thresholds) ==
  \/ /\ c.mom > thresholds.momentumThreshold
     /\ c.smaDiff > thresholds.smaDiffThreshold
     /\ c.above < thresholds.pricePositionPercent
  \/ /\ c.mom < -thresholds.momentumThreshold
     /\ c.smaDiff < -thresholds.smaDiffThreshold
     /\ c.above > -thresholds.pricePositionPercent

getMultiIndicatorSignal(c, thresholds) ==
  LET smaSignal == getSmaCrossoverSignal(c)
      momentumSignal == getMomentumSignal(c)
  IN IF (smaSignal = "buy" \/ momentumSignal = "buy")
          /\ assessProfitOpportunity(c, thresholds)
     THEN "buy"
     ELSE IF smaSignal = "sell" \/ momentumSignal = "sell" THEN "sell"
     ELSE "hold"

\* getStrategySignal(strategy, closes, candles) on the window that ends at c
getStrategySignal(strategy, c) ==
  CASE strategy = "momentum" -> getMomentumSignal(c)
    [] strategy = "sma-crossover" -> getSmaCrossoverSignal(c)
    [] strategy = "mean-reversion" -> getMeanReversionSignal(c)
    [] strategy = "multi-indicator" -> getMultiIndicatorSignal(c, DefaultThresholds)
    [] strategy = "multi-indicator-conservative" ->
         getMultiIndicatorSignal(c, ConservativeThresholds)
    [] strategy = "multi-indicator-optimized" ->
         getMultiIndicatorSignal(c, DefaultThresholds)
    [] OTHER -> "hold"

\* the strategies compareStrategies runs, in order
ComparedStrategies ==
  << "momentum", "sma-crossover", "mean-reversion", "multi-indicator",
     "multi-indicator-conservative", "multi-indicator-optimized" >>

\* candle.time of the k-th candle of the tail
candleTime(k) == WarmUp + k - 1

\* the id of the next trade when ids are counted over all runs
tradeId_AcrossRuns(run) == Len(run.previous.trades) + Len(run.trades) + 1

\* id: trades.length + 1
tradeId(run) == Len(run.trades) + 1

\* the trade that closes run.position at the close of candle c
closingTrade(run, c, exitTime, note) ==
  LET held == run.position
      exitPrice == c.close * (1000 - run.config.slippage)
      exitValue == (held.amount * exitPrice) \div held.entry_price
      fee == (exitValue * run.config.feeRate) \div 10000
  IN [id |-> tradeId(run), entry_time |-> held.entry_time, exit_time |-> exitTime,
      exitValue |-> exitValue, pnl |-> exitValue - held.amount - held.fee - fee,
      fee |-> held.fee + fee, exitFee |-> fee, note |-> note]

\* the position a buy opens at the k-th candle of the tail
openedAt(run, k) ==
  LET size == run.config.positionSize
  IN [open |-> TRUE, side |-> "buy",
      entry_price |-> run.candles[k].close * (1000 + run.config.slippage),
      amount |-> size, entry_time |-> candleTime(k), entry_index |-> candleTime(k),
      fee |-> (size * run.config.feeRate) \div 10000]

\* the run after trade is pushed and its proceeds are added to the capital
closedBy(run, trade) ==
  [run EXCEPT !.capital = run.capital + trade.exitValue - trade.exitFee,
              !.trades = Append(run.trades, trade)]

\* the loop body when a buy signal opens a position whether or not one is open
replayCandle_Reopens(run, k) ==
  LET signal == getStrategySignal(run.config.strategy, run.candles[k])
      seen == [run EXCEPT !.signal = signal, !.i = k + 1]
  IN IF signal = "buy" /\ run.capital >= run.config.positionSize
     THEN [seen EXCEPT !.position = openedAt(run, k),
                       !.capital = run.capital - (openedAt(run, k).amount
                                                  + openedAt(run, k).fee)]
     ELSE IF signal = "sell" /\ run.position.open /\ run.position.side = "buy"
     THEN LET sold == closedBy(seen, closingTrade(run, run.candles[k],
                                                  candleTime(k), "none"))
          IN [sold EXCEPT !.position = NoSimPosition,
                          !.equityCurve =
                            Append(run.equityCurve, [time |-> candleTime(k),
                                                     capital |-> sold.capital,
                                                     trades |-> Len(sold.trades)])]
     ELSE seen

\* one iteration of the loop of runBacktest, at the k-th candle of the tail
replayCandle(run, k) ==
  LET signal == getStrategySignal(run.config.strategy, run.candles[k])
      seen == [run EXCEPT !.signal = signal, !.i = k + 1]
  IN IF signal = "buy" /\ ~run.position.open /\ run.capital >= run.config.positionSize
     THEN [seen EXCEPT !.position = openedAt(run, k),
                       !.capital = run.capital - (openedAt(run, k).amount
                                                  + openedAt(run, k).fee)]
     ELSE IF signal = "sell" /\ run.position.open /\ run.position.side = "buy"
     THEN LET sold == closedBy(seen, closingTrade(run, run.candles[k],
                                                  candleTime(k), "none"))
          IN [sold EXCEPT !.position = NoSimPosition,
                          !.equityCurve =
                            Append(run.equityCurve, [time |-> candleTime(k),
                                                     capital |-> sold.capital,
                                                     trades |-> Len(sold.trades)])]
     ELSE seen

\* the end of runBacktest when an open position is left as it is
closeAtEnd_LeavesOpen(run) == run

\* the end of runBacktest: a position still open (the local is not cleared)
\* is closed at the last candle
closeAtEnd(run) ==
  IF run.position.open
  THEN closedBy(run, closingTrade(run, run.candles[Len(run.candles)],
                                  candleTime(Len(run.candles)), ForceClosed))
  ELSE run

\* runBacktest(config) up to its first await: it throws, or it waits for
\* getCandles
runBacktest(run, config) ==
  IF config.positionSize > config.initialCapital
  THEN [run EXCEPT !.phase = "threw", !.config = config]
  ELSE [run EXCEPT !.phase = "fetching", !.config = config, !.candles = << >>,
                   !.i = 0, !.capital = 0, !.position = NoSimPosition,
                   !.trades = << >>, !.equityCurve = << >>, !.signal = "none"]

\* compareStrategies from its n-th strategy on: a run that throws is recorded
\* and the next strategy is taken
RECURSIVE compareFrom(_, _)
compareFrom(run, n) ==
  IF n > Len(ComparedStrategies)
  THEN [run EXCEPT !.phase = "done", !.status = 200, !.at = n]
  ELSE LET started == runBacktest(run, [run.config EXCEPT
                                          !.strategy = ComparedStrategies[n]])
       IN IF started.phase = "threw"
          THEN compareFrom([started EXCEPT !.results = Append(run.results, "error")],
                           n + 1)
          ELSE [started EXCEPT !.at = n]

\* POST /backtest/run
PostBacktestRun ==
  /\ backtest.phase \in {"idle", "done", "failed", "rejected"}
  /\ \E config \in BacktestConfigs :
       LET fresh == [NoBacktest EXCEPT !.route = "run", !.config = config]
       IN backtest' =
            IF ~validateBacktestConfig(config)
            THEN [fresh EXCEPT !.phase = "rejected", !.status = 400]
            ELSE LET started == runBacktest(fresh, config)
                 IN IF started.phase = "threw"
                    THEN [started EXCEPT !.phase = "failed", !.status = 500]
                    ELSE started
  /\ UNCHANGED << omVars, dbVars, sigVars, autoVars, priceCache, tasks, riskVars,
                  now, stratVars, lastCall >>

\* POST /backtest/run once more with the body of the run that has finished;
\* the caller keeps the earlier response
RepeatBacktestRun ==
  /\ backtest.phase = "done"
  /\ backtest.route = "run"
  /\ backtest.previous = NoRun
  /\ backtest' =
       runBacktest([NoBacktest EXCEPT
                      !.route = "run",
                      !.previous = [ran |-> TRUE, config |-> backtest.config,
                                    candles |-> backtest.candles,
                                    trades |-> backtest.trades,
                                    equityCurve |-> backtest.equityCurve]],
                   backtest.config)
  /\ UNCHANGED << omVars, dbVars, sigVars, autoVars, priceCache, tasks, riskVars,
                  now, stratVars, lastCall >>

\* POST /backtest/compare
PostBacktestCompare ==
  /\ backtest.phase \in {"idle", "done", "failed", "rejected"}
  /\ \E config \in {c \in BacktestConfigs : c.strategy = "momentum"} :
       backtest' = compareFrom([NoBacktest EXCEPT !.route = "compare",
                                                   !.config = config], 1)
  /\ UNCHANGED << omVars, dbVars, sigVars, autoVars, priceCache, tasks, riskVars,
                  now, stratVars, lastCall >>

\* getCandles answers a run that waits for it
CandlesArriveIn(answers) ==
  /\ backtest.phase = "fetching"
  /\ \E r \in answers :
       backtest' =
         IF ~r.ok \/ r.short
         THEN IF backtest.route = "run"
              THEN [backtest EXCEPT !.phase = "failed", !.status = 500]
              ELSE compareFrom([backtest EXCEPT
                                  !.results = Append(backtest.results, "error")],
                               backtest.at + 1)
         ELSE [backtest EXCEPT
                 !.phase = "replay", !.candles = r.tail, !.i = 1,
                 !.capital = backtest.config.initialCapital,
                 !.equityCurve = << [time |-> 0,
                                     capital |-> backtest.config.initialCapital,
                                     trades |-> 0] >>]
  /\ UNCHANGED << omVars, dbVars, sigVars, autoVars, priceCache, tasks, riskVars,
                  now, stratVars, lastCall >>

CandlesArrive == CandlesArriveIn(CandleAnswers(BacktestCandles))
CandlesArriveSome == CandlesArriveIn(CandleAnswers({Rally, Drop}))

\* the loop of runBacktest reaches the next candle
ReplayCandle ==
  /\ backtest.phase = "replay"
  /\ backtest.i <= Len(backtest.candles)
  /\ backtest' = replayCandle(backtest, backtest.i)
  /\ UNCHANGED << omVars, dbVars, sigVars, autoVars, priceCache, tasks, riskVars,
                  now, stratVars, lastCall >>

\* the loop of runBacktest is over: the run closes what is open and returns
FinishBacktest ==
  /\ backtest.phase = "replay"
  /\ backtest.i > Len(backtest.candles)
  /\ LET ended == closeAtEnd(backtest)
     IN backtest' =
          IF backtest.route = "run"
          THEN [ended EXCEPT !.phase = "done", !.status = 200]
          ELSE compareFrom([ended EXCEPT !.results = Append(backtest.results, "ok")],
                           backtest.at + 1)
  /\ UNCHANGED << omVars, dbVars, sigVars, autoVars, priceCache, tasks, riskVars,
                  now, stratVars, lastCall >>

\* SpecBacktest: the backtest routes.  SpecRerun: a backtest that is run a
\* second time with the same body
NextBacktest ==
  \/ PostBacktestRun
  \/ PostBacktestCompare
  \/ CandlesArrive
  \/ ReplayCandle
  \/ FinishBacktest

SpecBacktest == Init /\ [][NextBacktest]_vars

NextRerun ==
  \/ PostBacktestRun
  \/ RepeatBacktestRun
  \/ CandlesArriveSome
  \/ ReplayCandle
  \/ FinishBacktest

SpecRerun == Init /\ [][NextRerun]_vars

\* ------------------------------------ advanced-risk.mjs: Kelly sizing
\* winRate is in percent, kellyFraction in hundredths, portfolioValue in
\* dollars (a multiple of 100); the result has kellyPercent in hundredths of
\* a percent and positionSize in cents, both rounded as toFixed(2) rounds
RoundDiv(a, b) == (2 * a + b) \div (2 * b)

WinRates == {0, 30, 60, 90}
AvgWins == {150, 200}
AvgLosses == {100, -100, 0}
KellyFractions == {25, 100}
PortfolioValues == {10000}

\* Kelly sizing when the full fraction is clamped before it is scaled
calculateKellyPositionSize_ClampFirst(winRate, avgWin, avgLoss, portfolioValue, kellyFraction) ==
  IF winRate = 0 \/ avgWin = 0 \/ avgLoss = 0
  THEN [kellyPercent |-> 0, positionSize |-> 0]
  ELSE LET full == winRate * avgWin - (100 - winRate) * AbsVal(avgLoss)
           clamped == Max(0, Min(full, 50 * avgWin))
           scaled == clamped * kellyFraction
       IN [kellyPercent |-> RoundDiv(scaled, avgWin),
           positionSize |-> RoundDiv((portfolioValue \div 100) * scaled, avgWin)]

\* calculateKellyPositionSize: full is the Kelly fraction (p * b - q) / b times
\* 100 * avgWin; it is scaled by kellyFraction and then clamped to [0, 0.5]
calculateKellyPositionSize(winRate, avgWin, avgLoss, portfolioValue, kellyFraction) ==
  IF winRate = 0 \/ avgWin = 0 \/ avgLoss = 0
  THEN [kellyPercent |-> 0, positionSize |-> 0]
  ELSE LET full == winRate * avgWin - (100 - winRate) * AbsVal(avgLoss)
           scaled == full * kellyFraction
           clamped == Max(0, Min(scaled, 5000 * avgWin))
       IN [kellyPercent |-> RoundDiv(clamped, avgWin),
           positionSize |-> RoundDiv((portfolioValue \div 100) * clamped, avgWin)]

\* calculateKellyPositionSize is called
CallKelly ==
  /\ \E winRate \in WinRates, avgWin \in AvgWins, avgLoss \in AvgLosses,
        portfolioValue \in PortfolioValues, kellyFraction \in KellyFractions :
       lastCall' = [fn |-> "calculateKellyPositionSize",
                    args |-> [winRate |-> winRate, avgWin |-> avgWin,
                              avgLoss |-> avgLoss, portfolioValue |-> portfolioValue,
                              kellyFraction |-> kellyFraction],
                    result |-> calculateKellyPositionSize(winRate, avgWin, avgLoss,
                                                          portfolioValue, kellyFraction)]
  /\ UNCHANGED << omVars, dbVars, sigVars, autoVars, priceCache, tasks, riskVars,
                  now, stratVars, backtest >>

\* ----------------------------------------- indicators.mjs: lastSmaSignal
\* closes are in sixths of a dollar, so that the averages over 1, 2 and 3
\* closes are whole; indices in the result are those of the JS array
ExampleCloses == << 600, 600, 600, 600, 600, 630, 660, 648, 672, 720 >>
FallingCloses == << 720, 672, 648, 660, 630, 600, 600, 600, 600, 600 >>
PrefixesOf(series) == {SubSeq(series, 1, n) : n \in 0..Len(series)}
SmaPeriods == {<< 2, 3 >>, << 1, 2 >>, << 1, 3 >>}

\* the crossover test when the short average must have been strictly on the
\* other side
crossover_Strict(prev, cur) ==
  IF prev < 0 /\ cur > 0 THEN "buy"
  ELSE IF prev > 0 /\ cur < 0 THEN "sell"
  ELSE "none"

\* the two tests of the loop of lastSmaSignal; they cannot both hold
crossover(prev, cur) ==
  IF prev <= 0 /\ cur > 0 THEN "buy"
  ELSE IF prev >= 0 /\ cur < 0 THEN "sell"
  ELSE "none"

\* the loop of lastSmaSignal from JS index i on (a[i + 1] is the entry at JS
\* index i)
RECURSIVE smaScan(_, _, _, _, _)
smaScan(a, b, i, sig, lastIdx) ==
  IF i >= Len(a) THEN [signal |-> sig, lastIdx |-> lastIdx]
  ELSE IF a[i].kind = "num" /\ b[i].kind = "num"
            /\ a[i + 1].kind = "num" /\ b[i + 1].kind = "num"
  THEN LET crossed == crossover(a[i].v - b[i].v, a[i + 1].v - b[i + 1].v)
       IN IF crossed = "none" THEN smaScan(a, b, i + 1, sig, lastIdx)
          ELSE smaScan(a, b, i + 1, crossed, i)
  ELSE smaScan(a, b, i + 1, sig, lastIdx)

\* lastSmaSignal(closes, shortN, longN): signal and lastIdx
lastSmaSignal(closes, shortN, longN) ==
  smaScan(sma(closes, shortN), sma(closes, longN), 1, "hold", -1)

\* lastSmaSignal is called
CallLastSmaSignal ==
  /\ \E closes \in PrefixesOf(ExampleCloses) \cup PrefixesOf(FallingCloses),
        periods \in SmaPeriods :
       lastCall' = [fn |-> "lastSmaSignal",
                    args |-> [closes |-> closes, shortN |-> periods[1],
                              longN |-> periods[2]],
                    result |-> lastSmaSignal(closes, periods[1], periods[2])]
  /\ UNCHANGED << omVars, dbVars, sigVars, autoVars, priceCache, tasks, riskVars,
                  now, stratVars, backtest >>

\* SpecCalc: the pure functions called on their own
NextCalc ==
  \/ CallKelly
  \/ CallLastSmaSignal

SpecCalc == Init /\ [][NextCalc]_vars

\* --------------------------------------------------------- specifications
\* Spec: the entry and exit path.  Callers open positions with executeTrade,
\* automation is started and stopped, the monitor loop closes positions.
Next ==
  \/ \E symbol \in Traded, side \in Sides, balanceUsd \in Balances :
       ManualExecuteTrade(symbol, side, balanceUsd)
  \/ \E task \in Running : ExecPrice(task)
  \/ StartAutomation
  \/ StopAutomation
  \/ \E i \in TimerIds : MonitorTick(i)
  \/ \E task \in Running : MonitorPrice(task)

Spec == Init /\ [][Next]_vars

\* SpecLoop: the decision loop next to the monitor loop, with a market that
\* stands still at one price and calls that do not fail.
Still == {Scaled(100)}

NextLoop ==
  \/ \E symbol \in Traded, side \in Sides, balanceUsd \in Balances :
       ManualExecuteTrade(symbol, side, balanceUsd)
  \/ \E task \in Running : ExecPriceIn(task, Still, {"none"})
  \/ \E symbol \in Traded : ManualAnalyze(symbol)
  \/ \E task \in Running : AnalyzeDone(task)
  \/ MsElapse
  \/ StartAutomation
  \/ StopAutomation
  \/ \E i \in TimerIds : DecisionTick(i)
  \/ \E task \in Running : DecisionCandles(task)
  \/ \E task \in Running : DecisionAnalyze(task)
  \/ \E i \in TimerIds : MonitorTick(i)
  \/ \E task \in Running : MonitorPriceIn(task, Still, FALSE)

SpecLoop == Init /\ [][NextLoop]_vars

\* SpecOM: the order manager driven through its own interface.
NextOM ==
  \/ \E symbol \in Traded, side \in Sides, price \in Prices, riskConfig \in RiskConfigs :
       OmCreatePosition(symbol, side, price, riskConfig)
  \/ \E positionId \in 1..MaxPositions, currentPrice \in UpdatePrices :
       OmUpdatePosition(positionId, currentPrice)
  \/ \E positionId \in 1..MaxPositions :
       OmClosePosition(positionId, Scaled(100), "manual")

SpecOM == Init /\ [][NextOM]_vars

\* SpecRisk: the risk controller, the clock and executeTrade.
NextRisk ==
  \/ CheckCircuitBreaker
  \/ \E tradePnL \in {0 - 1, 0, 1} : UpdateCircuitBreaker(tradePnL)
  \/ \E n \in {Null, 2}, c \in {Null, 1} : UpdateCircuitBreakerConfig(n, c)
  \/ ResetCircuitBreaker
  \/ Tick
  \/ \E symbol \in Traded, side \in Sides, balanceUsd \in Balances :
       ManualExecuteTrade(symbol, side, balanceUsd)
  \/ \E task \in Running : ExecPriceIn(task, Still, {"none"})

SpecRisk == Init /\ [][NextRisk]_vars

\* SpecIso: the decision loops of two symbols and the monitor loop, with
\* calls that fail and a market that stands still.
NextIso ==
  \/ StartAutomationOf({Symbols})
  \/ \E i \in TimerIds : DecisionTick(i)
  \/ \E task \in Running : DecisionCandles(task)
  \/ \E task \in Running : DecisionAnalyzeIn(task, Sides \cup {"error"})
  \/ MsElapse
  \/ \E task \in Running : ExecPriceIn(task, Still \cup {Null}, DbFailures)
  \/ \E i \in TimerIds : MonitorTick(i)
  \/ \E task \in Running : MonitorPriceIn(task, Still \cup {Null}, FALSE)

SpecIso == Init /\ [][NextIso]_vars

\* SpecStale: the decision loop of one symbol with a clock and price calls
\* that fail.
NextStale ==
  \/ \E symbol \in Traded, side \in Sides, balanceUsd \in Balances :
       ManualExecuteTrade(symbol, side, balanceUsd)
  \/ StartAutomation
  \/ \E i \in TimerIds : DecisionTick(i)
  \/ \E task \in Running : DecisionCandles(task)
  \/ \E task \in Running : DecisionAnalyze(task)
  \/ MsElapse
  \/ \E task \in Running : ExecPriceIn(task, Still \cup {Null}, {"none"})
  \/ Tick

SpecStale == Init /\ [][NextStale]_vars

\* the automation controls alone: the three routes and the exported setter,
\* with the decision loops ticking
NextCtl ==
  \/ StartAutomationList
  \/ StopAutomation
  \/ RestartAutomation
  \/ SetAutomationActive
  \/ \E i \in TimerIds : DecisionTick(i)
  \/ \E task \in Running : DecisionCandles(task)
  \/ \E task \in Running : DecisionAnalyzeIn(task, {"hold", "error"})
  \/ MsElapse

SpecCtl == Init /\ [][NextCtl]_vars

\* trading and monitoring with the process ending and starting again; no
\* call fails
NextBoot ==
  \/ \E symbol \in Traded, side \in Sides, balanceUsd \in Balances :
       ManualExecuteTrade(symbol, side, balanceUsd)
  \/ \E task \in Running : ExecPriceIn(task, Still, {"none"})
  \/ StartAutomation
  \/ StopAutomation
  \/ \E i \in TimerIds : MonitorTick(i)
  \/ \E task \in Running : MonitorPriceIn(task, Prices, FALSE)
  \/ ProcessRestart
  \/ \E i \in TimerIds : AutoRestartFire(i)

SpecBoot == Init /\ [][NextBoot]_vars

\* entries with balances around the minimum notional of 10
EntryBalances == {8, 12, 10000}

NextEntry ==
  \/ \E symbol \in Traded, side \in Sides, balanceUsd \in EntryBalances :
       ManualExecuteTrade(symbol, side, balanceUsd)
  \/ \E task \in Running : ExecPriceIn(task, Prices \cup {Null}, {"none"})

SpecEntry == Init /\ [][NextEntry]_vars

\* SpecEval: evaluation requests as wall time passes.  SpecParts: each
\* analysis component and indicator called on its own
NextEval ==
  \/ Evaluate
  \/ ClockTick

SpecEval == Init /\ [][NextEval]_vars

NextParts ==
  \/ Evaluate
  \/ CallComponent
  \/ CallIndicator

SpecParts == Init /\ [][NextParts]_vars

\* SpecSignals: the decision loop of one symbol when every signal the
\* analysis returns is strong (confidence at or above minConfidence); no
\* call fails.
NextSignals ==
  \/ StartAutomation
  \/ \E i \in TimerIds : DecisionTick(i)
  \/ \E task \in Running : DecisionCandles(task)
  \/ \E task \in Running : DecisionAnalyzeOf(task, SignalValues, {TRUE})
  \/ MsElapse
  \/ \E task \in Running : ExecPriceIn(task, Still, {"none"})

SpecSignals == Init /\ [][NextSignals]_vars

\* SpecExit: decision ticks and monitor ticks of one symbol, overlapping;
\* entries are at 100, the monitor sees 100 or 97 (the stop of a long, the
\* first rung of a short); the database calls of an exit may throw.
NextExit ==
  \/ StartAutomation
  \/ \E i \in TimerIds : DecisionTick(i)
  \/ \E task \in Running : DecisionCandles(task)
  \/ \E task \in Running : DecisionAnalyzeOf(task, Sides, {TRUE})
  \/ MsElapse
  \/ \E task \in Running : ExecPriceIn(task, Still, {"none"})
  \/ \E i \in TimerIds : MonitorTick(i)
  \/ \E task \in Running : MonitorPriceIn(task, {Scaled(97), Scaled(100)}, TRUE)

SpecExit == Init /\ [][NextExit]_vars

\* SpecShared: the evaluations of two symbols as wall time passes, each
\* symbol with its own window.
NextShared ==
  \/ \E symbol \in Symbols : EvaluateSymbol(symbol)
  \/ ClockTick

SpecShared == Init /\ [][NextShared]_vars

\* SpecLadder: one position entered at 100 with the default risk
\* configuration and updated with prices that sit exactly on the rungs of
\* its ladder, in any order.
LadderPrices ==
  {Scaled(100)} \cup
  {calculateMultipleTakeProfits(side, Scaled(100),
                                DEFAULT_RISK_CONFIG.takeProfitPercent)[k].price :
     side \in Sides, k \in 1..4}

NextLadder ==
  \/ \E symbol \in Traded, side \in Sides :
       OmCreatePosition(symbol, side, Scaled(100), DEFAULT_RISK_CONFIG)
  \/ \E positionId \in 1..MaxPositions, currentPrice \in LadderPrices :
       OmUpdatePosition(positionId, currentPrice)

SpecLadder == Init /\ [][NextLadder]_vars

\* ------------------------------------------------------------ properties
NewPositions == DOMAIN activePositions' \ DOMAIN activePositions
GonePositions == DOMAIN activePositions \ DOMAIN activePositions'
NewlyClosed == (Len(closedPositions) + 1)..Len(closedPositions')

\* C1: while the circuit breaker is tripped and its cooldown has not
\* elapsed, no entry attempt opens a position.
C1_BreakerRejectsEntries ==
  [][(/\ circuitBreakerState.isTripped
      /\ now - circuitBreakerState.tripTime < circuitBreakerState.cooldownPeriod)
     => NewPositions = {}]_vars

\* C2: at most one position is open per symbol at any time.
C2_OnePositionPerSymbol ==
  \A i, j \in DOMAIN activePositions :
    activePositions[i].symbol = activePositions[j].symbol => i = j

\* C3: as long as a position is open, its stop-loss price never decreases
\* if it is long and never increases if it is short.
C3_StopNeverLoosens ==
  [][\A id \in DOMAIN activePositions \cap DOMAIN activePositions' :
       IF activePositions[id].side = "buy"
       THEN activePositions'[id].stopLossPrice >= activePositions[id].stopLossPrice
       ELSE activePositions'[id].stopLossPrice <= activePositions[id].stopLossPrice]_vars

\* C3 witness: a long position whose stop was trailed up and then kept while
\* the price came back, so that a stop recomputed from the price would be lower
C3_Witness ==
  \E id \in DOMAIN activePositions :
    LET p == activePositions[id]
    IN /\ p.side = "buy"
       /\ p.trailingActivated
       /\ p.currentPrice > p.entryPrice
       /\ Pct(p.currentPrice, 10000 - p.trailingStopPercent) < p.stopLossPrice

RECURSIVE SumNotional(_, _)
SumNotional(ap, ids) ==
  IF ids = {} THEN 0
  ELSE LET i == CHOOSE x \in ids : TRUE
       IN ap[i].notional + SumNotional(ap, ids \ {i})

\* C4: a position is only opened if, with it, the exposure of its symbol
\* stays within maxExposurePerSymbol and the total exposure within
\* maxTotalExposure, as percentages of the account value of the entry.
C4_EntryWithinExposureCaps ==
  [][\A id \in NewPositions :
       \E task \in Running :
         /\ task.kind \in {"manual", "decision"}
         /\ task.symbol = activePositions'[id].symbol
         /\ SumNotional(activePositions',
              {i \in DOMAIN activePositions' :
                 activePositions'[i].symbol = task.symbol}) * 100
              <= portfolioLimits.maxExposurePerSymbol * task.balance
         /\ SumNotional(activePositions', DOMAIN activePositions') * 100
              <= portfolioLimits.maxTotalExposure * task.balance]_vars

\* C5: while automation is stopped, no decision tick opens a position and
\* no monitor tick closes one.
C5_StopHaltsTicks ==
  [][~automationActive =>
       /\ GonePositions = {}
       /\ \A task \in Running :
            (task.kind = "decision" /\ tasks' = Finish(task)) => NewPositions = {}]_vars

\* C6: no position is opened for a symbol by the decision loop while a
\* monitor tick that has read the positions of that symbol is still running.
C6_LoopsSerializedPerSymbol ==
  [][\A d \in Running, m \in Running :
       (/\ d.kind = "decision" /\ d.pc = "price" /\ tasks' = Finish(d)
        /\ m.kind = "monitor"
        /\ \E k \in 1..Len(m.snapshot) : m.snapshot[k].symbol = d.symbol)
       => \A id \in NewPositions : activePositions'[id].symbol # d.symbol]_vars

RECURSIVE RouteCloses(_, _, _, _)
RouteCloses(cb, closed, k, t) ==
  IF k > Len(closed) THEN cb
  ELSE RouteCloses(updateCircuitBreaker(cb, closed[k].realizedPnl, t), closed, k + 1, t)

\* C7: every step that closes positions leaves the circuit-breaker state
\* updated with the realized P&L of each of them, in order.
C7_ExitsReachRiskState ==
  [][NewlyClosed # {} =>
       circuitBreakerState' =
         RouteCloses(circuitBreakerState, closedPositions',
                     Len(closedPositions) + 1, now)]_vars

\* C8: a ladder-rung touch never closes the position: no position leaves
\* the table with the exit reason of a partial take-profit.
C8_RungKeepsPositionOpen ==
  \A i \in 1..Len(closedPositions) :
    closedPositions[i].exitReason # "partial-take-profit"

\* rungs of p, other than those in hits, that the price px touches
TouchedRungs(p, hits, px) ==
  {i \in 1..Len(p.multipleTakeProfits) :
     /\ ~Contains(hits, i)
     /\ isTakeProfitHit(p.side, px, p.multipleTakeProfits[i].price)}

\* C9: what a price update returns is decided by the first of stop-loss,
\* take-profit and lowest un-hit ladder rung that the price touches, and by
\* nothing if it touches none; a rung event marks that one rung only.
C9_FirstTriggerOnly ==
  lastUpdate.id # 0 =>
    LET r == lastUpdate
        p == r.position
        sl == isStopLossHit(p.side, r.exitPrice, p.stopLossPrice)
        tp == isTakeProfitHit(p.side, r.exitPrice, p.takeProfitPrice)
        before == IF r.action = "partial-take-profit"
                  THEN SubSeq(p.takeProfitsHit, 1, Len(p.takeProfitsHit) - 1)
                  ELSE p.takeProfitsHit
        touched == TouchedRungs(p, before, r.exitPrice)
    IN /\ sl => r.action = "stop-loss" /\ r.percentToClose = 100
       /\ (~sl /\ tp) => r.action = "take-profit" /\ r.percentToClose = 100
       /\ (~sl /\ ~tp /\ touched # {}) =>
            /\ r.action = "partial-take-profit"
            /\ \A j \in touched : r.level <= j
            /\ p.takeProfitsHit = Append(before, r.level)
            /\ r.percentToClose = p.multipleTakeProfits[r.level].positionPercent
       /\ (~sl /\ ~tp /\ touched = {}) => ~r.triggered /\ r.action = "none"
       /\ r.triggered <=> r.action # "none"

\* C9 witness: an update whose price touched the take-profit price and
\* un-hit rungs at once, and that returned the take-profit event
C9_Witness ==
  /\ lastUpdate.id # 0
  /\ lastUpdate.action = "take-profit"
  /\ TouchedRungs(lastUpdate.position, lastUpdate.position.takeProfitsHit,
                  lastUpdate.exitPrice) # {}

\* C10: a step that writes a trade row also opens its position and writes
\* the portfolio row of its symbol; a step that removes a position also
\* closes its trade row and writes the portfolio row with the exit price.
C10_AllOrNothing ==
  [][/\ \A id \in DOMAIN trades' \ DOMAIN trades :
          /\ id \in DOMAIN activePositions'
          /\ portfolio'[trades'[id].symbol].present
          /\ portfolio'[trades'[id].symbol].avg_price = trades'[id].price
     /\ \A id \in GonePositions :
          /\ trades'[id].status = "closed"
          /\ \E j \in GonePositions :
               portfolio'[trades'[id].symbol].current_price = trades'[j].closed_price]_vars

\* the step ends the tick of decision task d with a failure: the candle call
\* failed, the analysis returned an error, or executeTrade did not get through
FailedTick(d) ==
  /\ d.kind = "decision"
  /\ CopiesIn(d, tasks') < CopiesIn(d, tasks)
  /\ BagCardinality(tasks') < BagCardinality(tasks)
  /\ \/ d.pc = "candles"
     \/ d.pc = "analyze" /\ UNCHANGED sigVars
     \/ d.pc = "price" /\ (DOMAIN trades' = DOMAIN trades \/ UNCHANGED portfolio)

\* C11: a decision tick that fails leaves every interval set, every other
\* running tick where it is, and the data of the other symbols as they were.
C11_FailureIsolated ==
  [][\A d \in Running :
       FailedTick(d) =>
         /\ UNCHANGED << timers, automationIntervals, positionMonitorInterval,
                         automationActive >>
         /\ \A t \in Running \ {d} : CopiesIn(t, tasks') = CopiesIn(t, tasks)
         /\ \A o \in Symbols \ {d.symbol} :
              /\ priceCache'[o] = priceCache[o]
              /\ sigLatest'[o] = sigLatest[o]
              /\ portfolio'[o] = portfolio[o]
              /\ \A id \in DOMAIN activePositions :
                   activePositions[id].symbol = o =>
                     /\ id \in DOMAIN activePositions'
                     /\ activePositions'[id] = activePositions[id]]_vars

\* C11 witness: executeTrade threw in a decision tick of BTCUSDT after its
\* trade was saved, a decision tick of ETHUSDT is running and the three
\* intervals are set
C11_Witness ==
  /\ \E id \in DOMAIN trades : trades[id].symbol = "BTCUSDT"
  /\ ~portfolio["BTCUSDT"].present
  /\ \E t \in Running : t.kind = "decision" /\ t.symbol = "ETHUSDT"
  /\ \E i \in TimerIds : timers[i].kind = "monitor"
  /\ \A sym \in Symbols :
       \E i \in TimerIds : timers[i].kind = "decision" /\ timers[i].symbol = sym

\* C12: a decision tick whose candle call or price call failed opens no
\* position and saves no trade.  The price call of the step failed if the
\* cache entry of the symbol is left with a timestamp before the current time.
C12_FailedCallSkipsTick ==
  [][\A d \in Running :
       (/\ d.kind = "decision"
        /\ CopiesIn(d, tasks') < CopiesIn(d, tasks)
        /\ \/ d.pc = "candles" /\ BagCardinality(tasks') < BagCardinality(tasks)
           \/ d.pc = "price" /\ priceCache'[d.symbol].timestamp < now)
       => (NewPositions = {} /\ DOMAIN trades' = DOMAIN trades)]_vars

DecisionTimers(sym) ==
  {i \in TimerIds : timers[i].kind = "decision" /\ timers[i].symbol = sym}
MonitorTimers == {i \in TimerIds : timers[i].kind = "monitor"}
Subscribed ==
  LET syms == automationStateDb.automation_config.symbols
  IN {syms[k] : k \in 1..Len(syms)}

\* C15: while automation is running there is exactly one periodic decision
\* task for each subscribed symbol, none for any other symbol, and exactly
\* one monitor task
C15_OneTaskPerSymbol ==
  automationActive =>
    /\ \A sym \in Symbols :
         Cardinality(DecisionTimers(sym)) =
           IF sym \in Subscribed THEN 1 ELSE 0
    /\ Cardinality(MonitorTimers) = 1

\* ---------------------------------------------------------------- C16
OpenTrades == {id \in DOMAIN trades : trades[id].status = "open"}

\* C16: whenever automation is running, every position that is still open
\* (its trade row has status open) is among the positions the monitor loop
\* reads and checks for exit triggers, also after a stop or a restart of the
\* process
C16_OpenPositionsMonitored ==
  (automationActive /\ MonitorTimers # {}) =>
    \A id \in OpenTrades : id \in DOMAIN activePositions

\* ---------------------------------------------------------------- C17
\* C17: when executeTrade finishes for an entry whose notional (75% of the
\* balance) is below the minimum notional of 10, no trade row, position or
\* portfolio row has changed
C17_BelowMinNotionalRejected ==
  [][\A t \in Running :
       (/\ t.kind \in {"manual", "decision"}
        /\ t.pc = "price"
        /\ CopiesIn(t, tasks') < CopiesIn(t, tasks)
        /\ t.balance * 75 < 10 * 100)
       => UNCHANGED << activePositions, trades, portfolio >>]_vars

\* ---------------------------------------------------------------- C18
\* C18: every Signal an evaluation returns has an action among buy, sell and
\* hold and a confidence from 0 to 100
C18_SignalWellFormed ==
  (evaluation.component = "analyzeWithOptimalStrategy" /\ ~evaluation.threw) =>
    /\ evaluation.signal \in {"buy", "sell", "hold"}
    /\ evaluation.confidence \in 0..100

\* ---------------------------------------------------------------- C19
Neutral(series, length) ==
  /\ Len(series) = length
  /\ \A k \in 1..Len(series) : series[k] = Nul

\* C19: a component called with a window shorter than its minimum does not
\* throw and returns hold with confidence 0, or, for an indicator, a series
\* of the window's length without any reading
C19_ShortWindowNeutral ==
  evaluation.short =>
    /\ ~evaluation.threw
    /\ IF evaluation.signal = "series"
       THEN Neutral(evaluation.series, evaluation.window)
       ELSE evaluation.signal = "hold" /\ evaluation.confidence = 0

\* ---------------------------------------------------------------- C20
\* C20: an evaluation made no more than five minutes after the stored
\* regime was detected leaves the stored RegimeAssessment and the time of
\* its detection as they are and returns that assessment, so the regime
\* changes only in an evaluation made more than five minutes after it
C20_RegimeReusedWithinWindow ==
  [][(/\ clockMin' = clockMin
      /\ currentRegime # NoRegime
      /\ clockMin - lastRegimeCheck <= REGIME_CHECK_INTERVAL)
     => /\ currentRegime' = currentRegime
        /\ lastRegimeCheck' = lastRegimeCheck
        /\ ~evaluation'.short =>
             (evaluation'.regime = currentRegime /\ ~evaluation'.detected)]_vars

C20_Witness ==
  /\ evaluation.component = "analyzeWithOptimalStrategy"
  /\ ~evaluation.short
  /\ ~evaluation.detected
  /\ evaluation.at > lastRegimeCheck
  /\ evaluation.at - lastRegimeCheck <= REGIME_CHECK_INTERVAL
  /\ evaluation.regime = currentRegime
  /\ currentRegime # NoRegime

\* the last call was a selection of the strategy manager on a full window
Selected ==
  /\ evaluation.component = "analyzeWithOptimalStrategy"
  /\ ~evaluation.short

Classified ==
  /\ evaluation.component = "detectMarketRegime"
  /\ ~evaluation.short

TrendingRegimes == {"trending-up", "trending-down"}

\* C22 as stated: the first match of (1) trend strength > 70: trending-up or
\* trending-down; (2) high volatility and ranging: volatile; (3) ranging and
\* not high volatility: ranging; (4) trend strength > 50: trending-up or
\* trending-down; (5) otherwise choppy
C22_ByStrengthAlone ==
  Classified =>
    LET strength == evaluation.reading.trend.strength
        high == evaluation.reading.volLevel = "high"
        ranging == evaluation.reading.rangeScore >= 60
        regime == evaluation.regime.regime
    IN IF strength > 70 THEN regime \in TrendingRegimes
       ELSE IF high /\ ranging THEN regime = "volatile"
       ELSE IF ranging /\ ~high THEN regime = "ranging"
       ELSE IF strength > 50 THEN regime \in TrendingRegimes
       ELSE regime = "choppy"

\* C22: the regime is the first match of (1) aligned averages with trend
\* strength > 70: trending in the direction of the alignment; (2) high
\* volatility and ranging: volatile; (3) ranging and not high volatility:
\* ranging; (4) aligned averages with trend strength > 50: trending in the
\* direction of the alignment; (5) otherwise choppy
C22_RegimeByFirstMatch ==
  Classified =>
    LET trend == evaluation.reading.trend
        high == evaluation.reading.volLevel = "high"
        ranging == evaluation.reading.rangeScore >= 60
        regime == evaluation.regime.regime
        along == IF trend.direction = "up" THEN "trending-up" ELSE "trending-down"
    IN IF trend.trending /\ trend.strength > 70 THEN regime = along
       ELSE IF high /\ ranging THEN regime = "volatile"
       ELSE IF ranging /\ ~high THEN regime = "ranging"
       ELSE IF trend.trending /\ trend.strength > 50 THEN regime = along
       ELSE regime = "choppy"

\* a moderate aligned trend in a quiet ranging window was classified ranging
C22_Witness ==
  /\ Classified
  /\ evaluation.reading.trend.trending
  /\ evaluation.reading.trend.strength = 60
  /\ evaluation.reading.rangeScore >= 60
  /\ evaluation.reading.volLevel = "low"
  /\ evaluation.regime.regime = "ranging"

\* the last call was the composer on a full window
Composed ==
  /\ evaluation.component = "composeSignal"
  /\ ~evaluation.short

\* C23: the composer decides hold when both accumulators are zero and when
\* the two are equal; otherwise the side with the higher accumulator wins
C23_HigherAccumulatorWins ==
  Composed =>
    LET buyScore == evaluation.reading.buyScore
        sellScore == evaluation.reading.sellScore
    IN /\ (buyScore = 0 /\ sellScore = 0) => evaluation.signal = "hold"
       /\ buyScore = sellScore => evaluation.signal = "hold"
       /\ buyScore > sellScore => evaluation.signal = "buy"
       /\ sellScore > buyScore => evaluation.signal = "sell"

\* two equal votes that are not zero were composed to hold
C23_Witness ==
  /\ Composed
  /\ evaluation.reading.buyScore = evaluation.reading.sellScore
  /\ evaluation.reading.buyScore > 0
  /\ evaluation.signal = "hold"

\* ---------------------------------------------------------------- C24
\* the window the replay decides on after k candles of the tail, as the live
\* path sees it: it has fewer than 100 candles, and no reading of it is used
liveWindow(k) == [(CHOOSE w \in Windows : TRUE) EXCEPT !.length = WarmUp + k]

\* what the live path decides with that strategy id on that window
liveDecision(strategy, k) ==
  analyzeWithOptimalStrategy(liveWindow(k), TRUE, strategy, currentRegime,
                             lastRegimeCheck, clockMin).out.signal

\* C24: for the same strategy id and the same candle window the replay of a
\* backtest decides what the live path decides
C24_BacktestMatchesLive ==
  (backtest.phase = "replay" /\ backtest.i > 1) =>
    backtest.signal = liveDecision(backtest.config.strategy, backtest.i - 1)

\* ---------------------------------------------------------------- C25
\* the run that has ended was given the config and the candles of the run
\* before it
RanTwice ==
  /\ backtest.phase = "done"
  /\ backtest.previous.ran
  /\ backtest.previous.config = backtest.config
  /\ backtest.previous.candles = backtest.candles

C26_OpensOnlyWhenFlat ==
  [][(backtest'.position.open /\ backtest'.position # backtest.position)
       => /\ backtest'.signal = "buy"
          /\ ~backtest.position.open
          /\ backtest.capital >= backtest.config.positionSize]_vars

\* a buy signal arrived while a position was open and the position was kept
C26_Witness ==
  /\ backtest.phase = "replay"
  /\ backtest.signal = "buy"
  /\ backtest.position.open
  /\ backtest.position.entry_time < candleTime(backtest.i - 1)

\* ---------------------------------------------------------------- C27
\* C27: when a backtest has ended, a position that was still open after the
\* last candle has a trade that closes it at the last candle, and that trade
\* alone carries the note of a forced close
C27_ForceClosedAtEnd ==
  backtest.phase = "done" =>
    /\ backtest.position.open =>
          /\ backtest.trades # << >>
          /\ backtest.trades[Len(backtest.trades)].note = ForceClosed
          /\ backtest.trades[Len(backtest.trades)].entry_time
               = backtest.position.entry_time
          /\ backtest.trades[Len(backtest.trades)].exit_time
               = candleTime(Len(backtest.candles))
    /\ \A k \in 1..Len(backtest.trades) :
          backtest.trades[k].note = ForceClosed
            <=> (k = Len(backtest.trades) /\ backtest.position.open)

\* a run ended with a trade closed by a sell signal and a trade closed by force
C27_Witness ==
  /\ backtest.phase = "done"
  /\ backtest.position.open
  /\ Len(backtest.trades) = 2
  /\ backtest.trades[1].note = "none"
  /\ backtest.trades[2].note = ForceClosed

\* ---------------------------------------------------------------- C28
\* C28: a backtest whose configuration is invalid (position size above the
\* capital, start date not before end date, fee or slippage out of range) is
\* rejected before candles are fetched and before any candle is replayed
C28_InvalidConfigRejected ==
  (backtest.phase # "idle" /\ ~validateBacktestConfig(backtest.config)) =>
    /\ backtest.phase \notin {"fetching", "replay"}
    /\ backtest.trades = << >>

\* ---------------------------------------------------------------- C29
\* the last call sized a position from figures that are all there
Sized ==
  /\ lastCall.fn = "calculateKellyPositionSize"
  /\ lastCall.args.winRate # 0
  /\ lastCall.args.avgLoss # 0

\* (p * b - q) / b as a fraction: its numerator and its denominator
KellyNum == lastCall.args.winRate * lastCall.args.avgWin
              - (100 - lastCall.args.winRate) * AbsVal(lastCall.args.avgLoss)
KellyDen == 100 * lastCall.args.avgWin

\* the position size in cents for a fraction num / den of the portfolio; den
\* is a multiple of 10000
SizeFor(num, den) ==
  RoundDiv((lastCall.args.portfolioValue \div 100) * num, den \div 10000)

\* C29 as stated: the optimal fraction (p * b - q) / b is clamped to [0, 0.5]
\* and then scaled by the safety fraction to give the position size
C29_ClampedThenScaled ==
  Sized =>
    lastCall.result.positionSize =
      IF KellyNum <= 0 THEN 0
      ELSE IF 2 * KellyNum >= KellyDen
      THEN SizeFor(lastCall.args.kellyFraction * 50, 10000)
      ELSE SizeFor(KellyNum * lastCall.args.kellyFraction, KellyDen * 100)

\* C29: Kelly sizing takes the optimal fraction (p * b - q) / b, with p the win
\* rate, q = 1 - p and b = average win / average loss, scales it by the safety
\* fraction, clamps the scaled fraction to [0, 0.5] and applies it to the
\* portfolio value
C29_ScaledThenClamped ==
  Sized =>
    lastCall.result.positionSize =
      IF KellyNum <= 0 THEN 0
      ELSE IF 2 * KellyNum * lastCall.args.kellyFraction >= KellyDen * 100
      THEN SizeFor(5000, 10000)
      ELSE SizeFor(KellyNum * lastCall.args.kellyFraction, KellyDen * 100)

\* a full fraction of 0.85 was scaled by 0.25 and not clamped
C29_Witness ==
  /\ Sized
  /\ lastCall.args.winRate = 90
  /\ lastCall.args.avgWin = 200
  /\ lastCall.args.kellyFraction = 25
  /\ lastCall.result.positionSize = 212500

\* ---------------------------------------------------------------- C30
\* the last call was the SMA crossover with periods 2 and 3 on the first
\* closes of the example
OnExample ==
  /\ lastCall.fn = "lastSmaSignal"
  /\ lastCall.args.closes \in PrefixesOf(ExampleCloses)
  /\ lastCall.args.shortN = 2
  /\ lastCall.args.longN = 3

\* at JS index i of the example the average of 2 closes exceeds the average of
\* 3 closes after having been less than or equal to it at index i - 1
CrossesUp(i) ==
  /\ i >= 3
  /\ 3 * SumOf(ExampleCloses, i - 1, i) <= 2 * SumOf(ExampleCloses, i - 2, i)
  /\ 3 * SumOf(ExampleCloses, i, i + 1) > 2 * SumOf(ExampleCloses, i - 1, i + 1)

FirstCross == CHOOSE i \in 3..9 : CrossesUp(i) /\ \A j \in 3..(i - 1) : ~CrossesUp(j)

C31_StrongSignalTrades ==
  [][\A task \in Running, sig \in Sides, prev \in SignalValues :
       (/\ task.kind = "decision"
        /\ task.pc = "analyze"
        /\ task.autoTrade
        /\ task.rrOk
        /\ CopiesIn(task, tasks') < CopiesIn(task, tasks)
        /\ sigLatest[task.symbol] = {prev}
        /\ ~sigFresh[task.symbol]
        /\ prev # sig
        /\ sigLatest'[task.symbol] = {sig})
       => BagIn([task EXCEPT !.pc = "price", !.side = sig], tasks')]_vars

\* C32: over any interleaving of monitor ticks and decision ticks, the
\* in-memory close (closePosition), the persisted trade close (closeTrade) and
\* the portfolio update of the exit are each carried out at most once for a
\* position id.
C32_ExitedAtMostOnce ==
  /\ \A i, j \in 1..Len(closedPositions) :
        closedPositions[i].id = closedPositions[j].id => i = j
  /\ \A i, j \in 1..Len(exitCalls) : exitCalls[i] = exitCalls[j] => i = j

\* a position has been exited with all three calls while another monitor
\* tick that read it before the exit is still on its way to it
C32_Witness ==
  \E task \in Running, k \in 1..Len(closedPositions) :
    /\ task.kind = "monitor"
    /\ \E n \in 1..Len(task.snapshot) : task.snapshot[n].id = closedPositions[k].id
    /\ Contains(exitCalls, << "closeTrade", closedPositions[k].id >>)
    /\ Contains(exitCalls, << "updatePortfolio", closedPositions[k].id >>)

\* C33: when the only position ever opened on a symbol has been fully closed
\* (its exit has updated the portfolio), the persisted portfolio quantity of
\* the symbol is what it was before the open: 0, there being no row.
C33_RoundTripRestoresQuantity ==
  \A id \in DOMAIN trades :
    (/\ DOMAIN trades = {id}
     /\ Contains(exitCalls, << "updatePortfolio", id >>))
    => portfolio[trades[id].symbol].quantity = 0

\* C34: a close recorded while the breaker is tripped does not postpone the
\* end of the halt: at every time at which checkCircuitBreaker would have
\* stopped halting before the close (one cooldown period after the close
\* that tripped it), it stops halting after the close as well.
C34_CooldownEndsOnTime ==
  [][(/\ circuitBreakerState.isTripped
      /\ circuitBreakerState'.cooldownPeriod = circuitBreakerState.cooldownPeriod
      /\ circuitBreakerState'.maxConsecutiveLosses
            = circuitBreakerState.maxConsecutiveLosses)
     => \A t \in now..(MaxTime + circuitBreakerState.cooldownPeriod) :
          ~checkCircuitBreaker(circuitBreakerState, t).halted
            => ~checkCircuitBreaker(circuitBreakerState', t).halted]_vars

\* C35: the RegimeAssessment an evaluation of a symbol selects its strategy
\* with was computed from the candle window of that symbol.
C35_RegimeFromOwnWindow ==
  (/\ evaluation.component = "analyzeWithOptimalStrategy"
   /\ evaluation.symbol \in Symbols)
  => evaluation.regime = detectMarketRegime(SymbolWindow(evaluation.symbol))

\* the last update came at the price of rung k while rung k was un-hit,
\* every rung below it was hit and the stop was not touched: the one price
\* and moment at which rung k is the lowest un-hit rung that is touched
AtRung(k) ==
  /\ lastUpdate.id # 0
  /\ Len(lastUpdate.position.multipleTakeProfits) >= k
  /\ lastUpdate.exitPrice = lastUpdate.position.multipleTakeProfits[k].price
  /\ LET hits == lastUpdate.position.takeProfitsHit
         before == IF lastUpdate.action = "partial-take-profit"
                   THEN SubSeq(hits, 1, Len(hits) - 1) ELSE hits
     IN /\ \A j \in 1..(k - 1) : Contains(before, j)
        /\ ~Contains(before, k)
  /\ ~isStopLossHit(lastUpdate.position.side, lastUpdate.exitPrice,
                    lastUpdate.position.stopLossPrice)

RungExit(k) ==
  lastUpdate.action = "partial-take-profit" /\ lastUpdate.level = k

C37_ChoppyHolds ==
  (/\ evaluation.component = "analyzeWithOptimalStrategy"
   /\ evaluation.regime.regime = "choppy"
   /\ currentRegime.regime = "choppy"
   /\ evaluation.config.autoSwitch
   /\ evaluation.config.forceStrategy = "none")
  => evaluation.signal \notin Sides

\* C38: an evaluation that the selector routes to the momentum strategy, on
\* a window of at least 100 candles on which the momentum buy or sell
\* conditions hold, returns that buy or sell with a confidence within 0..100
\* and does not fail.
C38_MomentumSignals ==
  (/\ evaluation.component = "analyzeWithOptimalStrategy"
   /\ evaluation.symbol \in Symbols
   /\ evaluation.strategyUsed = "momentum"
   /\ evaluation.window >= 100
   /\ SymbolWindow(evaluation.symbol).lean \in Sides)
  => /\ ~evaluation.threw
     /\ evaluation.signal = SymbolWindow(evaluation.symbol).lean
     /\ evaluation.confidence \in 0..100

\* C39: while a backtest whose configuration is valid (position size at most
\* the initial capital, fee rate not negative) replays its candles, and when
\* it has ended, the simulated capital is not negative.
C39_CapitalNeverNegative ==
  (/\ backtest.phase \in {"replay", "done"}
   /\ validateBacktestConfig(backtest.config))
  => backtest.capital >= 0

\* C40: whenever the circuit breaker is not tripped, the consecutive-loss
\* counter is below the configured threshold.
C40_UntrippedBelowThreshold ==
  ~circuitBreakerState.isTripped
    => circuitBreakerState.consecutiveLosses
         < circuitBreakerState.maxConsecutiveLosses
====
